---- MODULE Spec2Model ----
(***************************************************************************)
(* go-metric: the Prometheus meter (internal/meter/prom), its signal       *)
(* listener, the runtime collector, the export servers and the instrument  *)
(* wrappers (internal/metrics/prom, internal/metrics/nop).                  *)
(* The runtime collector, one collection pass, Histogram.Time,             *)
(* utils.SanitizeMetricName and tag.Tags are also specified on their own   *)
(* (SpecCol, SpecPass, SpecTime, SpecSanitize, SpecTags), and so are one   *)
(* instrument followed method call by method call (SpecWrapper,            *)
(* SpecForward), sdk.NewMeter and package global (SpecSdk).                *)
(*                                                                         *)
(* Goroutines are modelled as processes with a program counter; every      *)
(* atomic operation or channel operation of the source is one step.        *)
(* Unbuffered channels are rendezvous: a send completes in the same step   *)
(* as the matching receive, and a non-blocking send (select with default)  *)
(* succeeds only when the receiver is parked on the channel.               *)
(***************************************************************************)
EXTENDS Integers, Sequences, FiniteSets, TLC

\* ---------------------------------------------------------------- bounds
\* number of live instrument instances the model tracks
MaxInst == 1
\* recording calls counted per live instrument instance
MaxCalls == 2
\* recording calls counted on the no-op singletons
MaxNopCalls == 1

\* tags added to one Base
MaxTags == 2
\* length of the names given to SanitizeMetricName
MaxNameLen == 3
\* calls of Histogram.Time counted
MaxTimeCalls == 2
\* goroutines that call collector.Start and collector.Stop on their own
NumCallers == 2
\* Collect goroutines the model tracks one by one
MaxTasks == 3
\* samples of the catalogue a collection pass goes through
CatalogueLen == 2
\* options given to one call of sdk.NewMeter
MaxOptions == 2
\* calls of an export server's Start that win the swap
MaxStarts == 3
\* calls of collector.Start that win the swap when Start is followed step by step
MaxSpawns == 2
\* collection passes (ticks) of one Collect goroutine
MaxTicks == 2
\* goroutines that call AddTag on one instrument at the same time
NumTaggers == 2

\* ------------------------------------------------------------- vocabulary
Kinds == {"Counter", "UpDownCounter", "Gauge", "Histogram"}

\* the recording methods of each instrument wrapper
Ops(k) ==
  CASE k = "Counter"       -> {"Incr", "IncrOne"}
    [] k = "UpDownCounter" -> {"Update", "IncrOne", "DecrOne"}
    [] k = "Gauge"         -> {"Update"}
    [] k = "Histogram"     -> {"Update", "UpdateInSeconds", "UpdateInMilliseconds",
                               "UpdateSine", "Time"}
    [] OTHER               -> {}

\* the method of each wrapper that tests the latch and calls the backend
BaseMethod(k) ==
  CASE k = "Counter"       -> "Incr"
    [] k = "UpDownCounter" -> "Update"
    [] k = "Gauge"         -> "Update"
    [] k = "Histogram"     -> "UpdateInSeconds"

\* the method a recording method calls, itself for the base method: IncrOne
\* calls Incr or Update, DecrOne calls Update, Time calls UpdateSine, and the
\* other histogram methods call UpdateInSeconds
Delegate(k, op) ==
  IF op = BaseMethod(k) THEN op
  ELSE IF k = "Histogram" /\ op = "Time" THEN "UpdateSine"
  ELSE BaseMethod(k)

\* the base method a recording method ends in, through at most two delegations
Reaches(k, op) == Delegate(k, Delegate(k, op))

\* an instrument slot no factory call has used
NoInst == [state |-> "free", kind |-> "none", completed |-> 0, calls |-> 0,
           inflight |-> 0, fwd |-> 0]
\* the last WithRunning request was handed to the listener, or none was made
NoDrop == [dir |-> "none", quiet |-> FALSE, again |-> FALSE]
\* no factory call has returned since the caller last took a result
NoRet == [kind |-> "none", res |-> "none", why |-> "none"]

\* a caller of the collector that has made no call yet
NoCall == [pc |-> "idle", log |-> "none"]
\* no samples read, no call made
NoPass == [samples |-> <<>>, idx |-> 0, calls |-> <<>>, tick |-> 0, fwd |-> <<>>]
\* no call of Time made
NoTime == [pc |-> "idle", on |-> "none", h |-> 0, calls |-> 0, runs |-> 0]
\* SanitizeMetricName not called
NoRes == [ok |-> FALSE, s |-> <<"none">>]
NoName == [name |-> <<>>, first |-> NoRes, second |-> NoRes]
\* two Bases without tags, Tags.String not called
NoStr == <<(<<"none", "none">>)>>
NoTags == [tags |-> <<(<<>>), (<<>>)>>, str |-> <<NoStr, NoStr>>]

\* a float64 the model can compare: the quotient num/den
Float(n) == [num |-> n, den |-> 1]
\* no method called on the instrument
NoMethod == [op |-> "none", val |-> Float(0), entries |-> {}, absent |-> FALSE,
             ret |-> "none"]
\* no instrument followed call by call
NoInstr == [impl |-> "none", kind |-> "none", completed |-> 0, tags |-> <<>>,
            sent |-> <<>>, call |-> NoMethod]

\* the meters a caller of the sdk can hold: the no-op meter, a Prometheus meter
\* built for an environment, the nil interface, and no meter at all
NopMeter == [impl |-> "nop", env |-> ""]
PromMeter(e) == [impl |-> "prom", env |-> e]
NilMeter == [impl |-> "nil", env |-> ""]
NoMeter == [impl |-> "none", env |-> ""]
\* no export server is followed
NoServer ==
  [kind |-> "none", running |-> 0, pc |-> "idle", last |-> "none", stops |-> 0,
   delivered |-> 0, gor |-> <<>>]
\* no goroutine is inside AddTag
NoRacers == <<>>
\* no nop.Meter is held
NoHeld == [meter |-> NoMeter, op |-> "none", on |-> "none", handler |-> "none"]
\* NewMeter not called
NoMade == [options |-> <<>>, ok |-> FALSE, meter |-> NoMeter, err |-> "none"]

VARIABLES
  cfg,       \* config.Config: RuntimeMetricsCollect, PushGateway != nil, PrometheusPort > 0
  handler,   \* PrometheusMeter.handler
  running,   \* PrometheusMeter.running
  lpc,       \* position of the signalListener goroutine
  lidx,      \* index of the server the listener's range loop is at
  col,       \* runtime collector: running flag, Collect goroutines parked at the
             \* select (sel) and inside a collection pass (pass)
  srv,       \* PrometheusMeter.servers: running flag, goroutines parked on closeCh
             \* (sel) and goroutines inside Push (busy)
  dropped,   \* the last WithRunning request if it took the default branch: its
             \* direction, whether the listener had returned by then (quiet) and
             \* whether the request before it was dropped in the same direction (again)
  inst,      \* instrument instances of the factory: state (free, creating, live),
             \* kind, Base.completed, recording calls begun (calls), calls past the
             \* latch and not yet at the backend (inflight), calls forwarded (fwd)
  backend,   \* number of Add/Record calls that reached the OpenTelemetry instruments
  nopCalls,  \* recording calls made on the no-op singletons
  lastRet,   \* the instrument a factory call has just returned to its caller
  callers,   \* goroutines that call collector.Start and collector.Stop: where each
             \* is (idle, or blocked in the send of Stop) and what its last call logged
  tasks,     \* the Collect goroutines one by one: at the select, inside a pass
             \* (with the index of the next sample) or returned
  pass,      \* one run of collectRuntimeMetric: the samples read, the loop index
             \* and the meter calls made so far
  timed,     \* calls of Histogram.Time: where the call is, the histogram it is
             \* on, calls returned and executions of the function passed in
  sanitized, \* SanitizeMetricName: a name, its result and the result of the result
  tagged,    \* two Bases' tag slices and the strings Tags.String gave for them
  instr,     \* one instrument followed call by call: the wrapper or the no-op
             \* singleton behind it (impl), Base.completed, Base.tags, the calls
             \* made on the OpenTelemetry instrument (sent) and the last method
             \* called on it with its arguments and what it returned
  made,      \* sdk.NewMeter: the options given, whether the Prometheus meter could
             \* be built, and the meter and the error returned
  globalMeter, \* package global: the meterStore in globalMeter, the last call made
             \* on the package and the meter GetMeter returned
  server,    \* one export server followed goroutine by goroutine: its kind, its
             \* running flag, where the caller of Start and Stop is, and for each
             \* Start that won the swap the goroutines it spawned
  racers,    \* goroutines inside Base.AddTag on the instrument of instr: where
             \* each is, the tag it appends and the slice it read
  held       \* a nop.Meter: the last method called on it, the last argument of
             \* WithRunning and what GetHandler returned

vars == <<cfg, handler, running, lpc, lidx, col, srv, dropped, inst, backend, nopCalls,
          lastRet, callers, tasks, pass, timed, sanitized, tagged, instr, made,
          globalMeter, server, racers, held>>
ctlVars == <<cfg, handler, running, lpc, lidx, col, srv, dropped>>
instVars == <<inst, backend, nopCalls, lastRet>>
\* the state of the parts that are also specified on their own
partVars == <<server, racers, held>>

pkgVars == <<instr, made, globalMeter, partVars>>
unitVars == <<callers, tasks, pass, timed, sanitized, tagged, pkgVars>>

\* ------------------------------------------------------- metric names
\* A name is a sequence of runes. The ASCII runes stand for themselves; u05d0 is
\* HEBREW LETTER ALEF (UTF-8 D7 90), u0663 ARABIC-INDIC DIGIT THREE (UTF-8 D9 A3),
\* u00d7 MULTIPLICATION SIGN and u00d9 LATIN CAPITAL LETTER U WITH GRAVE.
UpperSeq == <<"A", "B", "C", "D", "E", "F", "G", "H", "I", "J", "K", "L", "M", "N", "O", "P", "Q", "R", "S", "T", "U", "V", "W", "X", "Y", "Z">>
LowerSeq == <<"a", "b", "c", "d", "e", "f", "g", "h", "i", "j", "k", "l", "m", "n", "o", "p", "q", "r", "s", "t", "u", "v", "w", "x", "y", "z">>
Digits == {"0", "1", "2", "3", "4", "5", "6", "7", "8", "9"}

\* unicode.IsLetter
IsLetter(r) ==
  \/ \E i \in 1..Len(UpperSeq) : r = UpperSeq[i] \/ r = LowerSeq[i]
  \/ r \in {"u05d0", "u00d9"}

\* unicode.IsDigit
IsDigit(r) == r \in Digits \cup {"u0663"}

\* unicode.ToLower
ToLowerRune(r) ==
  IF \E i \in 1..Len(UpperSeq) : r = UpperSeq[i]
    THEN LowerSeq[CHOOSE i \in 1..Len(UpperSeq) : r = UpperSeq[i]]
  ELSE r

\* strings.ToLower
ToLower(name) == [i \in 1..Len(name) |-> ToLowerRune(name[i])]

\* rune(name[0]): the first byte of the UTF-8 encoding of the name, taken as a rune
FirstByteRune(name) ==
  CASE name[1] = "u05d0" -> "u00d7"
    [] name[1] = "u0663" -> "u00d9"
    [] OTHER             -> name[1]

\* the loop of SanitizeMetricName: letters, digits and '_' are kept, every other
\* rune becomes '_'
ReplaceRunes(name) ==
  [i \in 1..Len(name) |->
     IF IsLetter(name[i]) \/ IsDigit(name[i]) \/ name[i] = "_" THEN name[i] ELSE "_"]

\* strings.Trim(s, "_")
RECURSIVE TrimLeft(_)
TrimLeft(t) == IF t # <<>> /\ Head(t) = "_" THEN TrimLeft(Tail(t)) ELSE t
RECURSIVE TrimRight(_)
TrimRight(t) ==
  IF t # <<>> /\ t[Len(t)] = "_" THEN TrimRight(SubSeq(t, 1, Len(t) - 1)) ELSE t
Trim(t) == TrimRight(TrimLeft(t))

\* a prefix test that never finds a letter
NeedsPrefix_Always(name) == TRUE

\* if !unicode.IsLetter(rune(name[0]))
NeedsPrefix(name) == ~IsLetter(FirstByteRune(name))

\* name[0] on an empty string: the runtime panics, index out of range
Panic == [ok |-> FALSE, s |-> <<"panic">>]

\* utils.SanitizeMetricName
SanitizeMetricName(name) ==
  LET t == Trim(ReplaceRunes(ToLower(name))) IN
  IF t = <<>> THEN Panic
  ELSE [ok |-> TRUE, s |-> IF NeedsPrefix(t) THEN <<"o", "_">> \o t ELSE t]

\* the runes of the names tried
NameRunes == {"a", "A", "1", "_", "/", "u05d0", "u0663"}

\* the names of at most n runes
RECURSIVE Names(_)
Names(n) ==
  IF n = 0 THEN {<<>>}
  ELSE Names(n - 1) \cup
       {Append(x, r) : x \in {y \in Names(n - 1) : Len(y) = n - 1}, r \in NameRunes}

\* ------------------------------------------------------------------- tags
\* the tag keys tried, in the order encoding/json sorts map keys, and the values
TagKeys == <<"a", "b">>
TagValues == {"1", "2"}

\* attribute.String(key, value)
KeyValue(k, v) == [key |-> k, value |-> v]

\* the loop of Tags.String: tagMap[string(tag.Key)] = tag.Value.AsInterface(),
\* so of the tags of one key the last one stays
TagMap(t) ==
  [k \in {t[i].key : i \in 1..Len(t)} |->
     t[CHOOSE i \in 1..Len(t) :
         /\ t[i].key = k
         /\ \A j \in 1..Len(t) : t[j].key = k => j <= i].value]

\* json.Marshal of a map[string]interface{}: the entries in the order of the
\* sorted keys, each as the pair "key":"value"
RECURSIVE MarshalFrom(_, _)
MarshalFrom(m, n) ==
  IF n > Len(TagKeys) THEN <<>>
  ELSE (IF TagKeys[n] \in DOMAIN m THEN <<(<<TagKeys[n], m[TagKeys[n]]>>)>> ELSE <<>>)
       \o MarshalFrom(m, n + 1)
Marshal(m) == MarshalFrom(m, 1)

\* Tags.String
String(t) == Marshal(TagMap(t))

\* ------------------------------------------------------- atomic primitives
\* sync/atomic.CompareAndSwapInt32: ok tells whether the swap happened
CompareAndSwapInt32(v, old, new) ==
  [ok |-> v = old, val |-> IF v = old THEN new ELSE v]

\* isRunning that reports a running meter whatever the flag
isRunning_IgnoresFlag == TRUE

\* PrometheusMeter.isRunning
isRunning == running = 1

\* ----------------------------------------------------------- construction
\* the servers NewPrometheusMeter appends, in order
ServerKinds(c) ==
  (IF c.push THEN <<"push">> ELSE <<>>) \o (IF c.http THEN <<"http">> ELSE <<>>)

\* collector.Start run at construction
ColStarted(c) ==
  IF c.collect THEN [running |-> 1, sel |-> 1, pass |-> 0]
               ELSE [running |-> 0, sel |-> 0, pass |-> 0]

\* promPushGatewayServer.Start / promHttpServer.Start run at construction
SrvStarted(k) ==
  [kind |-> k, running |-> 1,
   sel  |-> IF k = "push" THEN 0 ELSE 1,
   busy |-> IF k = "push" THEN 1 ELSE 0]

Configs == [collect : BOOLEAN, push : BOOLEAN, http : BOOLEAN]

\* promhttp.HandlerFor(registry, ...): the handler of the meter's registry
HandlerFor == "registry"

\* a construction that leaves the meter stopped: running: 0 in the literal
NewPrometheusMeter_StartsStopped ==
  /\ cfg \in Configs
  /\ handler = HandlerFor
  /\ running = 0
  /\ lpc = "loop"
  /\ lidx = 1
  /\ col = ColStarted(cfg)
  /\ srv = [i \in 1..Len(ServerKinds(cfg)) |-> SrvStarted(ServerKinds(cfg)[i])]
  /\ dropped = NoDrop
  /\ inst = [i \in 1..MaxInst |-> NoInst]
  /\ backend = 0
  /\ nopCalls = 0
  /\ lastRet = NoRet

\* NewPrometheusMeter
NewPrometheusMeter ==
  /\ cfg \in Configs
  /\ handler = HandlerFor
  /\ running = 1
  /\ lpc = "loop"
  /\ lidx = 1
  /\ col = ColStarted(cfg)
  /\ srv = [i \in 1..Len(ServerKinds(cfg)) |-> SrvStarted(ServerKinds(cfg)[i])]
  /\ dropped = NoDrop
  /\ inst = [i \in 1..MaxInst |-> NoInst]
  /\ backend = 0
  /\ nopCalls = 0
  /\ lastRet = NoRet

\* GetHandler that gives nothing while the meter is stopped
GetHandler_NilWhenStopped == IF running = 1 THEN handler ELSE "nil"

\* PrometheusMeter.GetHandler: return p.handler
GetHandler == handler

\* no goroutine but the listener calls the collector, and no Collect goroutine
\* is tracked one by one
SamplerIdle ==
  /\ callers = [p \in 1..NumCallers |-> NoCall]
  /\ tasks = <<>>

\* no run of collectRuntimeMetric is followed sample by sample
PassIdle == pass = NoPass

\* no call of Histogram.Time has been made
TimedIdle == timed = NoTime

\* no name has been given to SanitizeMetricName
SanitizeIdle == sanitized = NoName

\* no tag has been added to either Base
TagsIdle == tagged = NoTags

\* no instrument is followed call by call
WrapperIdle == instr = NoInstr

\* package global after its init(): SetNopMeter()
GlobalInit ==
  [store |-> NopMeter, call |-> "init", arg |-> NoMeter, got |-> NoMeter]

\* sdk.NewMeter has not been called and package global is as init() left it
SdkIdle ==
  /\ made = NoMade
  /\ globalMeter = GlobalInit

\* no export server, no concurrent tagger and no nop.Meter is followed
PartsIdle ==
  /\ server = NoServer
  /\ racers = NoRacers
  /\ held = NoHeld

\* a meter after construction, nothing else in use
Init ==
  /\ NewPrometheusMeter
  /\ SamplerIdle
  /\ PassIdle
  /\ TimedIdle
  /\ SanitizeIdle
  /\ TagsIdle
  /\ WrapperIdle
  /\ SdkIdle
  /\ PartsIdle

\* ------------------------------------------------------ runtime collector
\* collector.Start with the configuration test inverted
CollectorStart_InvertedTest(c) ==
  IF cfg.collect THEN c
  ELSE LET r == CompareAndSwapInt32(c.running, 0, 1) IN
       IF ~r.ok THEN c
       ELSE [c EXCEPT !.running = r.val, !.sel = @ + 1]

\* collector.Start without the test of RuntimeMetricsCollect
CollectorStart_IgnoresConfig(c) ==
  LET r == CompareAndSwapInt32(c.running, 0, 1) IN
  IF ~r.ok THEN c
  ELSE [c EXCEPT !.running = r.val, !.sel = @ + 1]

\* collector.Start: the state of the collector after the call
CollectorStart(c) ==
  IF ~cfg.collect THEN c
  ELSE LET r == CompareAndSwapInt32(c.running, 0, 1) IN
       IF ~r.ok THEN c
       ELSE [c EXCEPT !.running = r.val, !.sel = @ + 1]

\* collector.Collect: the ticker fires and a collection pass begins
CollectTick ==
  /\ col.sel > 0
  /\ col' = [col EXCEPT !.sel = @ - 1, !.pass = @ + 1]
  /\ UNCHANGED <<cfg, handler, running, lpc, lidx, srv, dropped>>
  /\ UNCHANGED <<instVars, unitVars>>

\* collector.Collect: collectRuntimeMetric returns, back to the select
CollectPassDone ==
  /\ col.pass > 0
  /\ col' = [col EXCEPT !.pass = @ - 1, !.sel = @ + 1]
  /\ UNCHANGED <<cfg, handler, running, lpc, lidx, srv, dropped>>
  /\ UNCHANGED <<instVars, unitVars>>

\* NewRuntimeCollector: running 0, no goroutine
NewRuntimeCollector == [running |-> 0, sel |-> 0, pass |-> 0]

\* a Collect goroutine as `go c.Collect()` leaves it: at the select
NewTask == [pc |-> "select", idx |-> 0]

\* the Collect goroutines of ts that are at position pc
TasksAt(ts, pc) == Cardinality({t \in 1..Len(ts) : ts[t].pc = pc})

\* the collector with its goroutines counted from ts
Counted(c, ts) == [c EXCEPT !.sel = TasksAt(ts, "select"), !.pass = TasksAt(ts, "pass")]

\* what collector.Start logs last: disabled, already running, or nothing more
\* when it goes on to spawn Collect
StartLog(c) ==
  IF ~cfg.collect THEN "disabled"
  ELSE IF ~CompareAndSwapInt32(c.running, 0, 1).ok THEN "already_running"
  ELSE "spawned"

\* collector.Start called by goroutine p
CollectorStartCall(p) ==
  /\ callers[p].pc = "idle"
  /\ StartLog(col) = "spawned" => Len(tasks) < MaxTasks
  /\ col' = CollectorStart(col)
  /\ tasks' = IF StartLog(col) = "spawned" THEN Append(tasks, NewTask) ELSE tasks
  /\ callers' = [callers EXCEPT ![p].log = StartLog(col)]
  /\ UNCHANGED <<cfg, handler, running, lpc, lidx, srv, dropped>>
  /\ UNCHANGED <<instVars, pass, timed, sanitized, tagged, pkgVars>>

\* the swap of Stop with the arguments of Start
StopSwap_StartArguments(c) == CompareAndSwapInt32(c.running, 0, 1)

\* a swap of Stop that wins whatever the flag holds
StopSwap_AlwaysWins(c) == [ok |-> TRUE, val |-> 0]

\* collector.Stop: the compare-and-swap of the running flag
StopSwap(c) == CompareAndSwapInt32(c.running, 1, 0)

\* collector.Stop called by goroutine p, up to its send on closeCh: a failed
\* swap logs and returns
CollectorStopCall(p) ==
  /\ callers[p].pc = "idle"
  /\ col' = [col EXCEPT !.running = StopSwap(col).val]
  /\ callers' = IF StopSwap(col).ok
                  THEN [callers EXCEPT ![p].pc = "stop_send"]
                  ELSE [callers EXCEPT ![p].log = "not_running"]
  /\ UNCHANGED <<cfg, handler, running, lpc, lidx, srv, dropped, tasks>>
  /\ UNCHANGED <<instVars, pass, timed, sanitized, tagged, pkgVars>>

\* a close signal taken by a goroutine wherever it is, the pass included
Receiving_AnyPosition(t) == tasks[t].pc \in {"select", "pass"}

\* Collect receives from closeCh only in its select
Receiving(t) == tasks[t].pc = "select"

\* collector.Stop of goroutine p: c.closeCh <- struct{}{} meets case <-c.closeCh
\* of Collect goroutine t, which returns; Stop logs and returns
CollectorStopSend(p, t) ==
  /\ callers[p].pc = "stop_send"
  /\ Receiving(t)
  /\ tasks' = [tasks EXCEPT ![t].pc = "done"]
  /\ col' = Counted(col, tasks')
  /\ callers' = [callers EXCEPT ![p] = [pc |-> "idle", log |-> "stopped"]]
  /\ UNCHANGED <<cfg, handler, running, lpc, lidx, srv, dropped>>
  /\ UNCHANGED <<instVars, pass, timed, sanitized, tagged, pkgVars>>

\* Collect goroutine t: case <-ticker.C, collectRuntimeMetric begins
TaskTick(t) ==
  /\ tasks[t].pc = "select"
  /\ tasks' = [tasks EXCEPT ![t] = [pc |-> "pass", idx |-> 0]]
  /\ col' = [col EXCEPT !.sel = @ - 1, !.pass = @ + 1]
  /\ UNCHANGED <<cfg, handler, running, lpc, lidx, srv, dropped, callers>>
  /\ UNCHANGED <<instVars, pass, timed, sanitized, tagged, pkgVars>>

\* Collect goroutine t: one turn of the loop over the samples
TaskSample(t) ==
  /\ tasks[t].pc = "pass"
  /\ tasks[t].idx < CatalogueLen
  /\ tasks' = [tasks EXCEPT ![t].idx = @ + 1]
  /\ UNCHANGED <<cfg, handler, running, lpc, lidx, col, srv, dropped, callers>>
  /\ UNCHANGED <<instVars, pass, timed, sanitized, tagged, pkgVars>>

\* Collect goroutine t: the loop is over, collectRuntimeMetric returns and the
\* goroutine is back at the select
TaskPassDone(t) ==
  /\ tasks[t].pc = "pass"
  /\ tasks[t].idx = CatalogueLen
  /\ tasks' = [tasks EXCEPT ![t] = NewTask]
  /\ col' = [col EXCEPT !.pass = @ - 1, !.sel = @ + 1]
  /\ UNCHANGED <<cfg, handler, running, lpc, lidx, srv, dropped, callers>>
  /\ UNCHANGED <<instVars, pass, timed, sanitized, tagged, pkgVars>>

\* ------------------------------ Start and Stop of the collector step by step
\* the calls of Start that won the swap and have not reached the go statement
Spawning == Cardinality({q \in 1..NumCallers : callers[q].pc = "start_go"})

\* collector.Start called by goroutine p, up to its go statement: the test of
\* the configuration and the swap; a call that won the swap has yet to spawn
CollectorStartSwap(p) ==
  /\ callers[p].pc = "idle"
  /\ StartLog(col) = "spawned" => Len(tasks) + Spawning < MaxSpawns
  /\ col' = [col EXCEPT !.running = CollectorStart(col).running]
  /\ callers' = IF StartLog(col) = "spawned"
                  THEN [callers EXCEPT ![p].pc = "start_go"]
                  ELSE [callers EXCEPT ![p].log = StartLog(col)]
  /\ UNCHANGED <<cfg, handler, running, lpc, lidx, srv, dropped, tasks>>
  /\ UNCHANGED <<instVars, pass, timed, sanitized, tagged, pkgVars>>

\* collector.Start of goroutine p: go c.Collect(), and Start returns
CollectorStartGo(p) ==
  /\ callers[p].pc = "start_go"
  /\ tasks' = Append(tasks, NewTask)
  /\ col' = Counted(col, tasks')
  /\ callers' = [callers EXCEPT ![p] = [pc |-> "idle", log |-> "spawned"]]
  /\ UNCHANGED <<cfg, handler, running, lpc, lidx, srv, dropped>>
  /\ UNCHANGED <<instVars, pass, timed, sanitized, tagged, pkgVars>>

\* runtime/metrics.ValueKind
ValueKinds == {"KindBad", "KindUint64", "KindFloat64", "KindFloat64Histogram"}

\* the readings a sample may carry
SampleValues == {1, 2}

\* what metrics.All and metrics.Read give for one metric: Description.Cumulative,
\* Value.Kind() and the reading
Samples == [cumulative : BOOLEAN, kind : ValueKinds, value : SampleValues]

\* the catalogues of at most n samples
RECURSIVE Catalogues(_)
Catalogues(n) ==
  IF n = 0 THEN {<<>>}
  ELSE Catalogues(n - 1) \cup
       {Append(c, d) : c \in {x \in Catalogues(n - 1) : Len(x) = n - 1}, d \in Samples}

\* c.newSystemX(name).Op(ctx, float64(sample.Value.Read())) for sample i: the
\* factory of the meter called, the tag added to what it returns, the recording
\* method called on that, the accessor the reading is taken with and the reading
MeterCall(i, factory, op, read, d) ==
  [sample |-> i, factory |-> factory, tag |-> <<"metric_type", "base">>,
   op |-> op, read |-> read, value |-> d.value]

\* the body of the loop with the test of Cumulative left out: every sample is
\* treated as a cumulative one
Route_AllCumulative(i, d) ==
  CASE d.kind = "KindUint64"  -> <<MeterCall(i, "NewCounter", "Incr", "Uint64", d)>>
    [] d.kind = "KindFloat64" -> <<MeterCall(i, "NewUpDownCounter", "Update", "Float64", d)>>
    [] OTHER                  -> <<>>

\* the body of the loop of collectRuntimeMetric for sample i: the calls it makes
Route(i, d) ==
  IF ~d.cumulative
    THEN CASE d.kind = "KindUint64" -> <<MeterCall(i, "NewGauge", "Update", "Uint64", d)>>
           [] OTHER                 -> <<>>
    ELSE CASE d.kind = "KindUint64"  -> <<MeterCall(i, "NewCounter", "Incr", "Uint64", d)>>
           [] d.kind = "KindFloat64" -> <<MeterCall(i, "NewUpDownCounter", "Update", "Float64", d)>>
           [] d.kind = "KindFloat64Histogram" -> <<>>
           [] d.kind = "KindBad"     -> <<>>
           [] OTHER                  -> <<>>

\* collectRuntimeMetric: one turn of `for i, sample := range samples`
CollectSample ==
  /\ pass.idx < Len(pass.samples)
  /\ pass' = [pass EXCEPT !.idx = @ + 1,
                          !.calls = @ \o Route(pass.idx + 1, pass.samples[pass.idx + 1])]
  /\ UNCHANGED <<ctlVars, instVars, callers, tasks, timed, sanitized, tagged, pkgVars>>

\* ---------------------------------------------------------- export servers
\* promPushGatewayServer.Start / promHttpServer.Start: the server after the call.
\* The push goroutine begins with a Push; the http closer goroutine parks on closeCh.
ServerStart(s) ==
  LET r == CompareAndSwapInt32(s.running, 0, 1) IN
  IF ~r.ok THEN s
  ELSE IF s.kind = "push"
       THEN [s EXCEPT !.running = r.val, !.busy = @ + 1]
       ELSE [s EXCEPT !.running = r.val, !.sel = @ + 1]

\* promPushGatewayServer.push: a Push to the gateway ends, back to the select
PushDone(i) ==
  /\ srv[i].kind = "push"
  /\ srv[i].busy > 0
  /\ srv' = [srv EXCEPT ![i].busy = @ - 1, ![i].sel = @ + 1]
  /\ UNCHANGED <<cfg, handler, running, lpc, lidx, col, dropped>>
  /\ UNCHANGED <<instVars, unitVars>>

\* promPushGatewayServer.push: the push ticker fires
PushTick(i) ==
  /\ srv[i].kind = "push"
  /\ srv[i].sel > 0
  /\ srv' = [srv EXCEPT ![i].sel = @ - 1, ![i].busy = @ + 1]
  /\ UNCHANGED <<cfg, handler, running, lpc, lidx, col, dropped>>
  /\ UNCHANGED <<instVars, unitVars>>

\* ---------------------------------------------------------- signal listener
\* where the listener goes after the collector call of a branch
ToServers(pc) ==
  IF Len(srv) = 0 THEN "loop" ELSE pc

\* where the listener goes after the server at index i of a range loop
AfterServer(pc, i) ==
  IF i >= Len(srv) THEN [pc |-> "loop", idx |-> 1] ELSE [pc |-> pc, idx |-> i + 1]

\* signalListener: the for loop reaches the select and parks on onCh and offCh
ListenerPark ==
  /\ lpc = "loop"
  /\ lpc' = "wait"
  /\ UNCHANGED <<cfg, handler, running, lidx, col, srv, dropped>>
  /\ UNCHANGED <<instVars, unitVars>>

\* a non-blocking send on an unbuffered channel goes through only when the
\* receiver is parked on it
TrySend(receiverParked) == receiverParked

\* the channel WithRunning(on) sends on: onCh or offCh
Dir(on) == IF on THEN "on" ELSE "off"

\* WithRunning with a plain send in place of the select with default: the
\* caller waits for the listener to be parked on the channel
WithRunning_BlockingSend(on) ==
  /\ lpc = "wait"
  /\ lpc' = Dir(on)
  /\ dropped' = NoDrop
  /\ UNCHANGED <<cfg, handler, running, lidx, col, srv>>
  /\ UNCHANGED <<instVars, unitVars>>

\* WithRunning that sets the flag itself
WithRunning_Synchronous(on) ==
  /\ running' = IF on THEN 1 ELSE 0
  /\ UNCHANGED <<cfg, handler, lpc, lidx, col, srv, dropped>>
  /\ UNCHANGED <<instVars, unitVars>>

\* WithRunning whose caller also stops or starts the collector itself
WithRunning_CallsCollector(on) ==
  /\ IF TrySend(lpc = "wait")
       THEN /\ lpc' = Dir(on)
            /\ dropped' = NoDrop
       ELSE /\ lpc' = lpc
            /\ dropped' = [dir   |-> Dir(on),
                           quiet |-> lpc = "exited",
                           again |-> dropped.dir = Dir(on)]
  /\ col' = [col EXCEPT !.running = IF on THEN 1 ELSE 0]
  /\ UNCHANGED <<cfg, handler, running, lidx, srv>>
  /\ UNCHANGED <<instVars, unitVars>>

\* PrometheusMeter.WithRunning(on): select { case ch <- struct{}{}: default: }
WithRunning(on) ==
  /\ IF TrySend(lpc = "wait")
       THEN /\ lpc' = Dir(on)
            /\ dropped' = NoDrop
       ELSE /\ lpc' = lpc
            /\ dropped' = [dir   |-> Dir(on),
                           quiet |-> lpc = "exited",
                           again |-> dropped.dir = Dir(on)]
  /\ UNCHANGED <<cfg, handler, running, lidx, col, srv>>
  /\ UNCHANGED <<instVars, unitVars>>

\* the swap of the on branch with the arguments of the off branch
OnSwap_OffArguments == CompareAndSwapInt32(running, 1, 0)

\* case <-p.onCh: the compare-and-swap of the running flag
OnSwap == CompareAndSwapInt32(running, 0, 1)

\* case <-p.offCh: the compare-and-swap of the running flag
OffSwap == CompareAndSwapInt32(running, 1, 0)

\* case <-p.onCh: a failed swap logs and returns from signalListener
ListenerOn ==
  /\ lpc = "on"
  /\ running' = OnSwap.val
  /\ lpc' = IF OnSwap.ok THEN "on_collector" ELSE "exited"
  /\ UNCHANGED <<cfg, handler, lidx, col, srv, dropped>>
  /\ UNCHANGED <<instVars, unitVars>>

\* case <-p.onCh: p.runtimeCollector.Start()
ListenerOnCollector ==
  /\ lpc = "on_collector"
  /\ col' = CollectorStart(col)
  /\ lpc' = ToServers("on_servers")
  /\ lidx' = 1
  /\ UNCHANGED <<cfg, handler, running, srv, dropped>>
  /\ UNCHANGED <<instVars, unitVars>>

\* case <-p.onCh: meterServer.Start() for the server the range loop is at
ListenerOnServer ==
  /\ lpc = "on_servers"
  /\ srv' = [srv EXCEPT ![lidx] = ServerStart(@)]
  /\ lpc' = AfterServer("on_servers", lidx).pc
  /\ lidx' = AfterServer("on_servers", lidx).idx
  /\ UNCHANGED <<cfg, handler, running, col, dropped>>
  /\ UNCHANGED <<instVars, unitVars>>

\* case <-p.offCh: a failed swap logs and returns from signalListener
ListenerOff ==
  /\ lpc = "off"
  /\ running' = OffSwap.val
  /\ lpc' = IF OffSwap.ok THEN "off_collector" ELSE "exited"
  /\ UNCHANGED <<cfg, handler, lidx, col, srv, dropped>>
  /\ UNCHANGED <<instVars, unitVars>>

\* case <-p.offCh: p.runtimeCollector.Stop() up to its blocking send on closeCh
ListenerOffCollector ==
  /\ lpc = "off_collector"
  /\ LET r == CompareAndSwapInt32(col.running, 1, 0) IN
     /\ col' = [col EXCEPT !.running = r.val]
     /\ lpc' = IF r.ok THEN "off_collector_send" ELSE ToServers("off_servers")
  /\ lidx' = 1
  /\ UNCHANGED <<cfg, handler, running, srv, dropped>>
  /\ UNCHANGED <<instVars, unitVars>>

\* collector.Stop: c.closeCh <- struct{}{} meets case <-c.closeCh of Collect,
\* which returns
ListenerOffCollectorSend ==
  /\ lpc = "off_collector_send"
  /\ col.sel > 0
  /\ col' = [col EXCEPT !.sel = @ - 1]
  /\ lpc' = ToServers("off_servers")
  /\ UNCHANGED <<cfg, handler, running, lidx, srv, dropped>>
  /\ UNCHANGED <<instVars, unitVars>>

\* case <-p.offCh: meterServer.Stop() up to its blocking send on closeCh
ListenerOffServer ==
  /\ lpc = "off_servers"
  /\ LET r == CompareAndSwapInt32(srv[lidx].running, 1, 0) IN
     /\ srv' = [srv EXCEPT ![lidx].running = r.val]
     /\ lpc' = IF r.ok THEN "off_server_send" ELSE AfterServer("off_servers", lidx).pc
     /\ lidx' = IF r.ok THEN lidx ELSE AfterServer("off_servers", lidx).idx
  /\ UNCHANGED <<cfg, handler, running, col, dropped>>
  /\ UNCHANGED <<instVars, unitVars>>

\* Stop: s.closeCh <- struct{}{} meets the receive of the server's goroutine
\* (push returns; the http closer shuts the server down)
ListenerOffServerSend ==
  /\ lpc = "off_server_send"
  /\ srv[lidx].sel > 0
  /\ srv' = [srv EXCEPT ![lidx].sel = @ - 1]
  /\ lpc' = AfterServer("off_servers", lidx).pc
  /\ lidx' = AfterServer("off_servers", lidx).idx
  /\ UNCHANGED <<cfg, handler, running, col, dropped>>
  /\ UNCHANGED <<instVars, unitVars>>

\* every step of the signalListener goroutine
signalListener ==
  \/ ListenerPark
  \/ ListenerOn
  \/ ListenerOnCollector
  \/ ListenerOnServer
  \/ ListenerOff
  \/ ListenerOffCollector
  \/ ListenerOffCollectorSend
  \/ ListenerOffServer
  \/ ListenerOffServerSend

\* the goroutines the collaborators run
Background ==
  \/ CollectTick
  \/ CollectPassDone
  \/ \E i \in 1..Len(srv) : PushDone(i)
  \/ \E i \in 1..Len(srv) : PushTick(i)

\* the controller alone: toggle requests, the listener and the collaborators
NextCtl ==
  \/ \E on \in BOOLEAN : WithRunning(on)
  \/ signalListener
  \/ Background

SpecCtl == Init /\ [][NextCtl]_vars
\* ------------------------------------------------------------- instruments
\* Base.ready: the one-shot latch on Base.completed
ready_AlwaysReady(b) == [ok |-> TRUE, val |-> 1]

ready(b) == CompareAndSwapInt32(b.completed, 0, 1)

\* prom.NewCounter / NewUpDownCounter / NewGauge / NewHistogram: a fresh wrapper
NewWrapper(k) ==
  [state |-> "live", kind |-> k, completed |-> 0, calls |-> 0, inflight |-> 0, fwd |-> 0]

\* the lowest slot no factory call has used
FreeSlots == {i \in 1..MaxInst : inst[i].state = "free"}
FirstFree == CHOOSE i \in FreeSlots : \A j \in FreeSlots : i <= j

\* what the factory hands back when the meter is stopped
StoppedResult(k) == [kind |-> k, res |-> "nop", why |-> "stopped"]

\* a factory that hands the error case back as a nil instrument
FailedResult_Nil(k) == [kind |-> k, res |-> "nil", why |-> "failed"]

\* what the factory hands back when the backend refuses the instrument
FailedResult(k) == [kind |-> k, res |-> "nop", why |-> "failed"]

\* what the factory hands back when the backend created the instrument
CreatedResult(k) == [kind |-> k, res |-> "live", why |-> "created"]

\* NewCounter / NewUpDownCounter / NewGauge / NewHistogram up to the call of the
\* OpenTelemetry meter: if !p.isRunning() { return nop.X }
NewInstrumentCheck(k) ==
  /\ IF ~isRunning
       THEN /\ lastRet = NoRet
            /\ lastRet' = StoppedResult(k)
            /\ inst' = inst
       ELSE /\ FreeSlots # {}
            /\ inst' = [inst EXCEPT ![FirstFree] = [NoInst EXCEPT !.state = "creating", !.kind = k]]
            /\ lastRet' = lastRet
  /\ UNCHANGED <<backend, nopCalls>>
  /\ UNCHANGED <<ctlVars, unitVars>>

\* the rest of the factory: p.meter.Float64X(...) succeeds (ok) or returns an error
NewInstrumentCreate(k, ok) ==
  \E i \in 1..MaxInst :
    /\ inst[i].state = "creating"
    /\ inst[i].kind = k
    /\ lastRet = NoRet
    /\ IF ok
         THEN /\ inst' = [inst EXCEPT ![i] = NewWrapper(k)]
              /\ lastRet' = CreatedResult(k)
         ELSE /\ inst' = [inst EXCEPT ![i] = NoInst]
              /\ lastRet' = FailedResult(k)
    /\ UNCHANGED <<backend, nopCalls>>
    /\ UNCHANGED <<ctlVars, unitVars>>

\* PrometheusMeter.NewCounter
NewCounter ==
  \/ NewInstrumentCheck("Counter")
  \/ \E ok \in BOOLEAN : NewInstrumentCreate("Counter", ok)

\* PrometheusMeter.NewUpDownCounter
NewUpDownCounter ==
  \/ NewInstrumentCheck("UpDownCounter")
  \/ \E ok \in BOOLEAN : NewInstrumentCreate("UpDownCounter", ok)

\* PrometheusMeter.NewGauge
NewGauge ==
  \/ NewInstrumentCheck("Gauge")
  \/ \E ok \in BOOLEAN : NewInstrumentCreate("Gauge", ok)

\* PrometheusMeter.NewHistogram
NewHistogram ==
  \/ NewInstrumentCheck("Histogram")
  \/ \E ok \in BOOLEAN : NewInstrumentCreate("Histogram", ok)

\* the caller of the factory takes the instrument it was handed
TakeResult ==
  /\ lastRet # NoRet
  /\ lastRet' = NoRet
  /\ UNCHANGED <<inst, backend, nopCalls>>
  /\ UNCHANGED <<ctlVars, unitVars>>

\* a recording method of a live wrapper, whichever it is, up to the backend
\* call of the base method it ends in: if !base.ready() { return }
RecordReady(i) ==
  /\ inst[i].state = "live"
  /\ \A op \in Ops(inst[i].kind) : Reaches(inst[i].kind, op) = BaseMethod(inst[i].kind)
  /\ inst[i].calls < MaxCalls
  /\ LET r == ready(inst[i]) IN
     inst' = [inst EXCEPT ![i].completed = r.val,
                          ![i].calls = @ + 1,
                          ![i].inflight = IF r.ok THEN @ + 1 ELSE @]
  /\ UNCHANGED <<backend, nopCalls, lastRet>>
  /\ UNCHANGED <<ctlVars, unitVars>>

\* the backend call of a recording method: counter.Add / gauge.Record /
\* histogram.Record
RecordForward(i) ==
  /\ inst[i].state = "live"
  /\ inst[i].inflight > 0
  /\ inst' = [inst EXCEPT ![i].inflight = @ - 1, ![i].fwd = @ + 1]
  /\ backend' = backend + 1
  /\ UNCHANGED <<nopCalls, lastRet>>
  /\ UNCHANGED <<ctlVars, unitVars>>

\* a recording method of nop.Counter / nop.UpDownCounter / nop.Gauge /
\* nop.Histogram, whichever it is: an empty body
NopRecord ==
  /\ nopCalls < MaxNopCalls
  /\ nopCalls' = nopCalls + 1
  /\ UNCHANGED <<inst, backend, lastRet>>
  /\ UNCHANGED <<ctlVars, unitVars>>

\* prom Histogram.Time on the live histogram i: start := time.Now(), f about
\* to be called
TimeCall(i) ==
  /\ timed.pc = "idle"
  /\ timed.calls < MaxTimeCalls
  /\ inst[i].state = "live"
  /\ inst[i].kind = "Histogram"
  /\ inst[i].calls < MaxCalls
  /\ timed' = [timed EXCEPT !.pc = "fn", !.on = "live", !.h = i]
  /\ UNCHANGED <<ctlVars, instVars, callers, tasks, pass, sanitized, tagged, pkgVars>>

\* prom Histogram.Time: f() runs and returns
TimeFn ==
  /\ timed.pc = "fn"
  /\ timed' = [timed EXCEPT !.pc = "update", !.runs = @ + 1]
  /\ UNCHANGED <<ctlVars, instVars, callers, tasks, pass, sanitized, tagged, pkgVars>>

\* prom Histogram.Time: h.UpdateSine(context.Background(), start), which ends
\* in UpdateInSeconds: if !h.base.ready() { return }, and Time returns
TimeUpdate ==
  /\ timed.pc = "update"
  /\ LET r == ready(inst[timed.h]) IN
     /\ inst' = [inst EXCEPT ![timed.h].completed = r.val,
                             ![timed.h].calls = @ + 1,
                             ![timed.h].inflight = IF r.ok THEN @ + 1 ELSE @]
     /\ timed' = IF r.ok THEN [timed EXCEPT !.pc = "record"]
                         ELSE [timed EXCEPT !.pc = "idle", !.calls = @ + 1]
  /\ UNCHANGED <<backend, nopCalls, lastRet>>
  /\ UNCHANGED <<ctlVars, callers, tasks, pass, sanitized, tagged, pkgVars>>

\* prom Histogram.Time: h.histogram.Record of UpdateInSeconds, and Time returns
TimeRecord ==
  /\ timed.pc = "record"
  /\ inst' = [inst EXCEPT ![timed.h].inflight = @ - 1, ![timed.h].fwd = @ + 1]
  /\ backend' = backend + 1
  /\ timed' = [timed EXCEPT !.pc = "idle", !.calls = @ + 1]
  /\ UNCHANGED <<nopCalls, lastRet>>
  /\ UNCHANGED <<ctlVars, callers, tasks, pass, sanitized, tagged, pkgVars>>

\* nopHistogram.Time on the no-op histogram NewHistogram has returned:
\* func (n *nopHistogram) Time(_ func()) {}
NopTime ==
  /\ timed.pc = "idle"
  /\ timed.calls < MaxTimeCalls
  /\ lastRet.kind = "Histogram"
  /\ lastRet.res = "nop"
  /\ timed' = [timed EXCEPT !.on = "nop", !.h = 0, !.calls = @ + 1]
  /\ UNCHANGED <<ctlVars, instVars, callers, tasks, pass, sanitized, tagged, pkgVars>>

\* what callers do with instruments
Instruments ==
  \/ NewCounter
  \/ NewUpDownCounter
  \/ NewGauge
  \/ NewHistogram
  \/ TakeResult
  \/ \E i \in 1..MaxInst : RecordReady(i)
  \/ \E i \in 1..MaxInst : RecordForward(i)
  \/ NopRecord

\* the whole program
Next ==
  \/ NextCtl
  \/ Instruments

Spec == Init /\ [][Next]_vars

\* config.GetConfig: new(Config), no push gateway, no port, no runtime collection
DefaultConfig == [collect |-> FALSE, push |-> FALSE, http |-> FALSE]

\* a meter built from the default configuration
InitInst == Init /\ cfg = DefaultConfig

\* the meter of the default configuration and its callers: the listener has no
\* collaborator to start or stop
NextInst ==
  \/ \E on \in BOOLEAN : WithRunning(on)
  \/ ListenerPark
  \/ ListenerOn
  \/ ListenerOnCollector
  \/ ListenerOff
  \/ ListenerOffCollector
  \/ Instruments

SpecInst == InitInst /\ [][NextInst]_vars

\* ------------------------------------------- the runtime collector on its own
\* a collector fresh from NewRuntimeCollector, with collection enabled or not,
\* in a meter of no server
InitCol ==
  /\ cfg \in {c \in Configs : ~c.push /\ ~c.http}
  /\ handler = HandlerFor
  /\ running = 1
  /\ lpc = "loop"
  /\ lidx = 1
  /\ col = NewRuntimeCollector
  /\ srv = <<>>
  /\ dropped = NoDrop
  /\ inst = [i \in 1..MaxInst |-> NoInst]
  /\ backend = 0
  /\ nopCalls = 0
  /\ lastRet = NoRet
  /\ SamplerIdle
  /\ PassIdle
  /\ TimedIdle
  /\ SanitizeIdle
  /\ TagsIdle
  /\ WrapperIdle
  /\ SdkIdle
  /\ PartsIdle

\* goroutines calling Start and Stop in any order and overlap, and the Collect
\* goroutines they spawn
NextCol ==
  \/ \E p \in 1..NumCallers : CollectorStartCall(p)
  \/ \E p \in 1..NumCallers : CollectorStopCall(p)
  \/ \E p \in 1..NumCallers : \E t \in 1..Len(tasks) : CollectorStopSend(p, t)
  \/ \E t \in 1..Len(tasks) : TaskTick(t)
  \/ \E t \in 1..Len(tasks) : TaskSample(t)
  \/ \E t \in 1..Len(tasks) : TaskPassDone(t)

SpecCol == InitCol /\ [][NextCol]_vars

\* goroutines calling Start and Stop in any order and overlap, each call step
\* by step, and the Collect goroutines they spawn
NextStop ==
  \/ \E p \in 1..NumCallers : CollectorStartSwap(p)
  \/ \E p \in 1..NumCallers : CollectorStartGo(p)
  \/ \E p \in 1..NumCallers : CollectorStopCall(p)
  \/ \E p \in 1..NumCallers : \E t \in 1..Len(tasks) : CollectorStopSend(p, t)
  \/ \E t \in 1..Len(tasks) : TaskTick(t)
  \/ \E t \in 1..Len(tasks) : TaskSample(t)
  \/ \E t \in 1..Len(tasks) : TaskPassDone(t)

SpecStop == InitCol /\ [][NextStop]_vars

\* every goroutine that can run is scheduled, and a select that keeps finding a
\* sender blocked on closeCh takes that case in the end
FairStop ==
  /\ SpecStop
  /\ \A p \in 1..NumCallers : WF_vars(CollectorStartGo(p))
  /\ \A p \in 1..NumCallers :
       SF_vars(\E t \in 1..Len(tasks) : CollectorStopSend(p, t))
  /\ WF_vars(\E t \in 1..Len(tasks) : TaskSample(t))
  /\ WF_vars(\E t \in 1..Len(tasks) : TaskPassDone(t))

\* --------------------------------------------------- one collection pass
\* a collector whose goroutine has entered collectRuntimeMetric and has read
\* the samples
InitPass ==
  /\ cfg = [collect |-> TRUE, push |-> FALSE, http |-> FALSE]
  /\ handler = HandlerFor
  /\ running = 1
  /\ lpc = "loop"
  /\ lidx = 1
  /\ col = [running |-> 1, sel |-> 0, pass |-> 1]
  /\ srv = <<>>
  /\ dropped = NoDrop
  /\ inst = [i \in 1..MaxInst |-> NoInst]
  /\ backend = 0
  /\ nopCalls = 0
  /\ lastRet = NoRet
  /\ SamplerIdle
  /\ pass \in [samples : Catalogues(CatalogueLen), idx : {0}, calls : {<<>>},
              tick : {1}, fwd : {<<>>}]
  /\ TimedIdle
  /\ SanitizeIdle
  /\ TagsIdle
  /\ WrapperIdle
  /\ SdkIdle
  /\ PartsIdle

NextPass == CollectSample

SpecPass == InitPass /\ [][NextPass]_vars

\* ------------------------------------------------------------ Histogram.Time
\* the meter of the default configuration, a caller that asks it for histograms
\* and times a function on what it gets
NextTime ==
  \/ \E on \in BOOLEAN : WithRunning(on)
  \/ ListenerPark
  \/ ListenerOn
  \/ ListenerOnCollector
  \/ ListenerOff
  \/ ListenerOffCollector
  \/ NewHistogram
  \/ TakeResult
  \/ \E i \in 1..MaxInst : TimeCall(i)
  \/ TimeFn
  \/ TimeUpdate
  \/ TimeRecord
  \/ NopTime

SpecTime == InitInst /\ [][NextTime]_vars

\* ------------------------------------------------------- SanitizeMetricName
\* SanitizeMetricName called on the name
SanitizeName ==
  /\ sanitized.first = NoRes
  /\ sanitized' = [sanitized EXCEPT !.first = SanitizeMetricName(sanitized.name)]
  /\ UNCHANGED <<ctlVars, instVars, callers, tasks, pass, timed, tagged, pkgVars>>

\* SanitizeMetricName called on what the first call returned
SanitizeResult ==
  /\ sanitized.first.ok
  /\ sanitized.second = NoRes
  /\ sanitized' = [sanitized EXCEPT !.second = SanitizeMetricName(sanitized.first.s)]
  /\ UNCHANGED <<ctlVars, instVars, callers, tasks, pass, timed, tagged, pkgVars>>

\* a name to sanitize, beside a meter of the default configuration
InitSanitize ==
  /\ NewPrometheusMeter
  /\ cfg = DefaultConfig
  /\ SamplerIdle
  /\ PassIdle
  /\ TimedIdle
  /\ sanitized \in [name : Names(MaxNameLen), first : {NoRes}, second : {NoRes}]
  /\ TagsIdle
  /\ WrapperIdle
  /\ SdkIdle
  /\ PartsIdle

NextSanitize ==
  \/ SanitizeName
  \/ SanitizeResult

SpecSanitize == InitSanitize /\ [][NextSanitize]_vars

\* ---------------------------------------------------------------- tag sets
\* Base.AddTag(key, value) on Base b: b.tags = append(b.tags, ...)
AddTag(b, k, v) ==
  /\ Len(tagged.tags[b]) < MaxTags
  /\ tagged' = [tagged EXCEPT !.tags[b] = Append(@, KeyValue(k, v)), !.str[b] = NoStr]
  /\ UNCHANGED <<ctlVars, instVars, callers, tasks, pass, timed, sanitized, pkgVars>>

\* Tags.String called on the tags of Base b
TagsString(b) ==
  /\ tagged.str[b] = NoStr
  /\ tagged' = [tagged EXCEPT !.str[b] = String(tagged.tags[b])]
  /\ UNCHANGED <<ctlVars, instVars, callers, tasks, pass, timed, sanitized, pkgVars>>

\* two Bases that are given tags and asked for their string
NextTags ==
  \/ \E b \in 1..2 : \E i \in 1..Len(TagKeys) : \E v \in TagValues : AddTag(b, TagKeys[i], v)
  \/ \E b \in 1..2 : TagsString(b)

SpecTags == InitInst /\ [][NextTags]_vars

\* ------------------------------------------- one instrument, call by call
\* the tags given to an instrument
KeyValues == {KeyValue(TagKeys[i], v) : i \in 1..Len(TagKeys), v \in TagValues}

\* the values of map[string]string: sets of entries, no two of one key
TagMaps == {m \in SUBSET KeyValues : \A x, y \in m : x.key = y.key => x = y}

\* the orders in which `for k, v := range tags` may go over the entries of a map
RangeOrders(m) ==
  {s \in [1..Cardinality(m) -> m] : \A i, j \in 1..Cardinality(m) : s[i] = s[j] => i = j}

\* the values given to the recording methods
ArgValues == {Float(-1), Float(2)}

\* the recording methods whose value does not come from the clock
RecordOps(k) == Ops(k) \ {"UpdateSine", "Time"}

\* float64 division by n
Quotient(x, n) == [num |-> x.num, den |-> x.den * n]

\* time.Duration.Seconds of a duration given in nanoseconds
Seconds(d) == Quotient(d, 1000000000)

\* the value a recording method hands over with the milliseconds not converted
Passed_MillisecondsAsSeconds(k, op, x) ==
  CASE op = "IncrOne"                     -> Float(1)
    [] op = "DecrOne"                     -> Float(0 - 1)
    [] k = "Histogram" /\ op = "Update"   -> Seconds(x)
    [] OTHER                              -> x

\* the value a recording method hands to the method it calls: c.Incr(ctx, 1),
\* c.Update(ctx, 1), c.Update(ctx, -1), h.UpdateInSeconds(ctx, m/1000),
\* h.UpdateInSeconds(ctx, d.Seconds())
Passed(k, op, x) ==
  CASE op = "IncrOne"                                   -> Float(1)
    [] op = "DecrOne"                                   -> Float(0 - 1)
    [] k = "Histogram" /\ op = "UpdateInMilliseconds"   -> Quotient(x, 1000)
    [] k = "Histogram" /\ op = "Update"                 -> Seconds(x)
    [] OTHER                                            -> x

\* the value that reaches the base method of the wrapper
Forwarded(k, op, x) ==
  IF op = BaseMethod(k) THEN x
  ELSE IF Delegate(k, op) = BaseMethod(k) THEN Passed(k, op, x)
  ELSE Passed(k, Delegate(k, op), Passed(k, op, x))

\* counter.Add / gauge.Record / histogram.Record with
\* metric.WithAttributes(base.tags...)
BackendCall(k, x, tags) ==
  [method |-> IF k \in {"Counter", "UpDownCounter"} THEN "Add" ELSE "Record",
   value |-> x, tags |-> tags]

\* a tagging method called with entries m, and what it returned
TagCall(op, m, absent) ==
  [NoMethod EXCEPT !.op = op, !.entries = m, !.absent = absent, !.ret = "receiver"]

\* a recording method called with value x; IncrOne and DecrOne take none
RecordCall(op, x) ==
  [NoMethod EXCEPT !.op = op,
                   !.val = IF op \in {"IncrOne", "DecrOne"} THEN Float(0) ELSE x]

\* prom.NewCounter / NewUpDownCounter / NewGauge / NewHistogram, or the no-op
\* singleton of the kind: the instrument before any call on it
NewInstrument(impl, k) == [NoInstr EXCEPT !.impl = impl, !.kind = k]

\* Base.AddTag that leaves the tags alone once the latch is taken
BaseAddTag_Latched(b, k, v) ==
  IF b.completed = 1 THEN b.tags ELSE Append(b.tags, KeyValue(k, v))

\* Base.AddTag: b.tags = append(b.tags, attribute.String(key, value))
BaseAddTag(b, k, v) == Append(b.tags, KeyValue(k, v))

\* the loop of Base.WithTags: for k, v := range tags { b.AddTag(k, v) }
RECURSIVE RangeAddTag(_, _)
RangeAddTag(b, order) ==
  IF Len(order) = 0 THEN b.tags
  ELSE RangeAddTag([b EXCEPT !.tags = BaseAddTag(b, Head(order).key, Head(order).value)],
                   Tail(order))

\* Base.WithTags that stops after the first entry
BaseWithTags_FirstEntry(b, order) ==
  IF Len(order) = 0 THEN b.tags
  ELSE BaseAddTag(b, Head(order).key, Head(order).value)

\* Base.WithTags: if tags == nil || len(tags) == 0 { return }, then the loop
BaseWithTags(b, order) ==
  IF Len(order) = 0 THEN b.tags
  ELSE RangeAddTag(b, order)

\* Counter.AddTag / UpDownCounter.AddTag / Gauge.AddTag / Histogram.AddTag:
\* c.base.AddTag(key, value); return c
WrapperAddTag(b, k, v) ==
  [b EXCEPT !.tags = BaseAddTag(b, k, v),
            !.call = TagCall("AddTag", {KeyValue(k, v)}, FALSE)]

\* Counter.WithTags / UpDownCounter.WithTags / Gauge.WithTags /
\* Histogram.WithTags: c.base.WithTags(tags); return c
WrapperWithTags(b, order, absent) ==
  [b EXCEPT !.tags = BaseWithTags(b, order),
            !.call = TagCall("WithTags", {order[i] : i \in 1..Len(order)}, absent)]

\* a recording method of a wrapper: through its delegations to the base method,
\* if !base.ready() { return }, then the call of the OpenTelemetry instrument
WrapperRecord(b, op, x) ==
  LET r == ready(b) IN
  [b EXCEPT !.completed = r.val,
            !.sent = IF r.ok
                       THEN Append(@, BackendCall(b.kind, Forwarded(b.kind, op, x), b.tags))
                       ELSE @,
            !.call = RecordCall(op, x)]

\* AddTag of a no-op singleton that keeps the tag
NopAddTag_Stores(b, k, v) ==
  [b EXCEPT !.tags = Append(@, KeyValue(k, v)),
            !.call = TagCall("AddTag", {KeyValue(k, v)}, FALSE)]

\* nopCounter.AddTag / nopUpDownCounter.AddTag / nopGauge.AddTag /
\* nopHistogram.AddTag: return n
NopAddTag(b, k, v) == [b EXCEPT !.call = TagCall("AddTag", {KeyValue(k, v)}, FALSE)]

\* WithTags of the no-op singletons: return n
NopWithTags(b, order, absent) ==
  [b EXCEPT !.call = TagCall("WithTags", {order[i] : i \in 1..Len(order)}, absent)]

\* a recording method of the no-op singletons: an empty body
NopUpdate(b, op, x) == [b EXCEPT !.call = RecordCall(op, x)]

\* AddTag called through the interface of the instrument
CallAddTag(k, v) ==
  /\ instr.impl \in {"prom", "nop"}
  /\ Len(instr.tags) < MaxTags
  /\ instr' = IF instr.impl = "prom" THEN WrapperAddTag(instr, k, v)
                                     ELSE NopAddTag(instr, k, v)
  /\ UNCHANGED <<ctlVars, instVars, callers, tasks, pass, timed, sanitized, tagged>>
  /\ UNCHANGED <<made, globalMeter, partVars>>

\* WithTags called through the interface with the map m, or with nil (absent)
CallWithTags(m, absent) ==
  /\ instr.impl \in {"prom", "nop"}
  /\ absent => m = {}
  /\ Len(instr.tags) + Cardinality(m) <= MaxTags
  /\ \E order \in RangeOrders(m) :
       instr' = IF instr.impl = "prom" THEN WrapperWithTags(instr, order, absent)
                                       ELSE NopWithTags(instr, order, absent)
  /\ UNCHANGED <<ctlVars, instVars, callers, tasks, pass, timed, sanitized, tagged>>
  /\ UNCHANGED <<made, globalMeter, partVars>>

\* a recording method called through the interface with value x
CallRecord(op, x) ==
  /\ instr.impl \in {"prom", "nop"}
  /\ op \in RecordOps(instr.kind)
  /\ instr' = IF instr.impl = "prom" THEN WrapperRecord(instr, op, x)
                                     ELSE NopUpdate(instr, op, x)
  /\ UNCHANGED <<ctlVars, instVars, callers, tasks, pass, timed, sanitized, tagged>>
  /\ UNCHANGED <<made, globalMeter, partVars>>

\* an instrument of any kind as the meter returned it, beside a meter of the
\* default configuration
InitWrapper ==
  /\ NewPrometheusMeter
  /\ cfg = DefaultConfig
  /\ SamplerIdle
  /\ PassIdle
  /\ TimedIdle
  /\ SanitizeIdle
  /\ TagsIdle
  /\ instr \in {NewInstrument(impl, k) : impl \in {"prom", "nop"}, k \in Kinds}
  /\ SdkIdle
  /\ PartsIdle

\* a caller that tags the instrument and records on it in any order
NextWrapper ==
  \/ \E kv \in KeyValues : CallAddTag(kv.key, kv.value)
  \/ \E m \in TagMaps : \E absent \in BOOLEAN : CallWithTags(m, absent)
  \/ \E op \in RecordOps(instr.kind) : \E x \in ArgValues : CallRecord(op, x)

SpecWrapper == InitWrapper /\ [][NextWrapper]_vars

\* --------------------------------- a collection pass, method call by method call
\* the kind of instrument a factory of the meter gives
FactoryKind(f) ==
  CASE f = "NewCounter"       -> "Counter"
    [] f = "NewUpDownCounter" -> "UpDownCounter"
    [] f = "NewGauge"         -> "Gauge"
    [] f = "NewHistogram"     -> "Histogram"

\* the calls of the body of the loop for the sample the pass is at
Routed == Route(pass.idx + 1, pass.samples[pass.idx + 1])

\* an evaluation of c.newSystemX(name).Op(...) that records before it tags
Stage_RecordFirst ==
  CASE instr.call.op = "New"    -> "record"
    [] instr.call.op = "AddTag" -> "new"
    [] instr.call.op = "none"   -> "new"
    [] OTHER                    -> "tag"

\* where the evaluation of c.newSystemX(name).Op(...) is: newSystemX calls the
\* factory of the meter, then AddTag on what it returned, and returns that;
\* the recording method is called on what newSystemX returned
Stage ==
  CASE instr.call.op = "New"    -> "tag"
    [] instr.call.op = "AddTag" -> "record"
    [] OTHER                    -> "new"

\* what a turn of the loop leaves at the backend when it makes no call
NotForwarded == [impl |-> "none", sent |-> 0]

\* what a turn of the loop leaves at the backend: the instrument the factory
\* returned (wrapper or no-op singleton) and the calls the recording method
\* made on the OpenTelemetry instrument
Reached(b, after) == [impl |-> b.impl, sent |-> Len(after.sent) - Len(b.sent)]

\* a turn of the loop for a sample that is not forwarded
ForwardSkip ==
  /\ pass.idx < Len(pass.samples)
  /\ Stage = "new"
  /\ Routed = <<>>
  /\ pass' = [pass EXCEPT !.idx = @ + 1, !.fwd = Append(@, NotForwarded)]
  /\ UNCHANGED <<ctlVars, instVars, callers, tasks, timed, sanitized, tagged>>
  /\ UNCHANGED <<instr, made, globalMeter, partVars>>

\* a factory that hands back the wrapper it made before when the kind is the same
ForwardNew_SameWrapper(ok) ==
  /\ pass.idx < Len(pass.samples)
  /\ Stage = "new"
  /\ Routed # <<>>
  /\ instr' = IF instr.impl = "prom" /\ instr.kind = FactoryKind(Routed[1].factory)
                THEN [instr EXCEPT !.call = [NoMethod EXCEPT !.op = "New"]]
                ELSE [NewInstrument(IF ok THEN "prom" ELSE "nop",
                                    FactoryKind(Routed[1].factory))
                        EXCEPT !.call = [NoMethod EXCEPT !.op = "New"]]
  /\ UNCHANGED <<ctlVars, instVars, callers, tasks, timed, sanitized, tagged>>
  /\ UNCHANGED <<pass, made, globalMeter, partVars>>

\* c.meter.NewX(metricName, "system metric", ""): the meter returns a fresh
\* wrapper, or the no-op singleton when the backend refused the instrument
ForwardNew(ok) ==
  /\ pass.idx < Len(pass.samples)
  /\ Stage = "new"
  /\ Routed # <<>>
  /\ instr' = [NewInstrument(IF ok THEN "prom" ELSE "nop", FactoryKind(Routed[1].factory))
                 EXCEPT !.call = [NoMethod EXCEPT !.op = "New"]]
  /\ UNCHANGED <<ctlVars, instVars, callers, tasks, timed, sanitized, tagged>>
  /\ UNCHANGED <<pass, made, globalMeter, partVars>>

\* .AddTag("metric_type", "base") on what the factory returned
ForwardAddTag ==
  /\ pass.idx < Len(pass.samples)
  /\ Stage = "tag"
  /\ instr' = IF instr.impl = "prom"
                THEN WrapperAddTag(instr, Routed[1].tag[1], Routed[1].tag[2])
                ELSE NopAddTag(instr, Routed[1].tag[1], Routed[1].tag[2])
  /\ UNCHANGED <<ctlVars, instVars, callers, tasks, timed, sanitized, tagged>>
  /\ UNCHANGED <<pass, made, globalMeter, partVars>>

\* .Incr / .Update(context.Background(), float64(...)) on what newSystemX
\* returned, and the turn of the loop ends
ForwardRecord ==
  /\ pass.idx < Len(pass.samples)
  /\ Stage = "record"
  /\ instr' = IF instr.impl = "prom"
                THEN WrapperRecord(instr, Routed[1].op, Float(Routed[1].value))
                ELSE NopUpdate(instr, Routed[1].op, Float(Routed[1].value))
  /\ pass' = [pass EXCEPT !.idx = @ + 1, !.calls = @ \o Routed,
                          !.fwd = Append(@, Reached(instr, instr'))]
  /\ UNCHANGED <<ctlVars, instVars, callers, tasks, timed, sanitized, tagged>>
  /\ UNCHANGED <<made, globalMeter, partVars>>

\* collectRuntimeMetric over the samples read, one method call at a time
NextForward ==
  \/ ForwardSkip
  \/ \E ok \in BOOLEAN : ForwardNew(ok)
  \/ ForwardAddTag
  \/ ForwardRecord

SpecForward == InitPass /\ [][NextForward]_vars

\* metrics.Read on the next pass: the same metrics in the same order (name,
\* Cumulative and Kind as before), each with a new reading
ReadAgain(samples) ==
  {s \in [1..Len(samples) -> Samples] :
     \A i \in 1..Len(samples) :
       /\ s[i].cumulative = samples[i].cumulative
       /\ s[i].kind = samples[i].kind}

\* Collect: collectRuntimeMetric has returned, the ticker fires again and the
\* next pass reads the samples
CollectNextTick ==
  /\ pass.tick < MaxTicks
  /\ pass.idx = Len(pass.samples)
  /\ Stage = "new"
  /\ \E s \in ReadAgain(pass.samples) :
       pass' = [samples |-> s, idx |-> 0, calls |-> <<>>, tick |-> pass.tick + 1,
                fwd |-> <<>>]
  /\ UNCHANGED <<ctlVars, instVars, callers, tasks, timed, sanitized, tagged>>
  /\ UNCHANGED <<instr, made, globalMeter, partVars>>

\* a Collect goroutine over its ticks, one method call at a time
NextTicks ==
  \/ NextForward
  \/ CollectNextTick

SpecTicks == InitPass /\ [][NextTicks]_vars

\* ------------------------------------------- sdk.NewMeter and package global
\* config.MeterEnvDev
MeterEnvDev == "dev"

\* config.MeterProviderTypePrometheus: iota + 1
MeterProviderTypePrometheus == 1

\* config.GetConfig: new(Config), Env "" and MeterProvider 0
GetConfig == [Env |-> "", MeterProvider |-> 0]

\* meter.WithEnv(env)
WithEnv(e) == [kind |-> "env", env |-> e, provider |-> 0]

\* meter.WithProviderType(providerType)
WithProviderType(t) == [kind |-> "provider", env |-> "", provider |-> t]

\* the options tried: the three environments, the Prometheus provider and a
\* provider type the sdk does not know
Options ==
  {WithEnv(e) : e \in {"production", "test", MeterEnvDev}}
    \cup {WithProviderType(t) : t \in {MeterProviderTypePrometheus, 2}}

\* the lists of at most n options
RECURSIVE OptionLists(_)
OptionLists(n) ==
  IF n = 0 THEN {<<>>}
  ELSE OptionLists(n - 1) \cup
       {Append(x, o) : x \in {y \in OptionLists(n - 1) : Len(y) = n - 1}, o \in Options}

\* envOption.ApplyConfig / meterProviderOption.ApplyConfig
ApplyConfig(o, c) ==
  IF o.kind = "env" THEN [c EXCEPT !.Env = o.env]
                    ELSE [c EXCEPT !.MeterProvider = o.provider]

\* for _, option := range options { option.ApplyConfig(cfg) }
RECURSIVE ApplyOptions(_, _)
ApplyOptions(c, options) ==
  IF Len(options) = 0 THEN c
  ELSE ApplyOptions(ApplyConfig(Head(options), c), Tail(options))

\* IsDev that takes the test environment for dev as well
IsDev_TestToo(c) == c.Env \in {MeterEnvDev, "test"}

\* Config.IsDev
IsDev(c) == c.Env = MeterEnvDev

\* sdk.NewMeter; ok tells whether prom.NewPrometheusMeter returned without error
NewMeter(options, ok) ==
  LET c == ApplyOptions(GetConfig, options) IN
  IF IsDev(c) THEN [meter |-> NopMeter, err |-> "nil"]
  ELSE IF c.MeterProvider = MeterProviderTypePrometheus
         THEN IF ok THEN [meter |-> PromMeter(c.Env), err |-> "nil"]
                    ELSE [meter |-> NilMeter, err |-> "error"]
  ELSE [meter |-> NopMeter, err |-> "nil"]

\* a caller calls NewMeter and keeps what it returned
NewMeterCall(options, ok) ==
  /\ made' = [options |-> options, ok |-> ok,
              meter |-> NewMeter(options, ok).meter, err |-> NewMeter(options, ok).err]
  /\ UNCHANGED <<ctlVars, instVars, callers, tasks, pass, timed, sanitized, tagged>>
  /\ UNCHANGED <<instr, globalMeter, partVars>>

\* SetMeter without the test for nil
SetMeter_StoresNil(g, m) == m

\* global.SetMeter: if meter == nil { return }, then globalMeter.Store
SetMeter(g, m) == IF m = NilMeter THEN g.store ELSE m

\* global.GetMeter: globalMeter.Load().(meterStore).meter
GetMeter(g) == g.store

\* meter.SetGlobalMeter with the meter the last call of NewMeter returned
SetGlobalMeter ==
  /\ made # NoMade
  /\ globalMeter' = [globalMeter EXCEPT !.store = SetMeter(globalMeter, made.meter),
                                        !.call = "SetMeter",
                                        !.arg = made.meter]
  /\ UNCHANGED <<ctlVars, instVars, callers, tasks, pass, timed, sanitized, tagged>>
  /\ UNCHANGED <<instr, made, partVars>>

\* global.SetNopMeter: globalMeter.Store(meterStore{meter: nop.NewNopMeter()})
SetNopMeter ==
  /\ globalMeter' = [globalMeter EXCEPT !.store = NopMeter,
                                        !.call = "SetNopMeter",
                                        !.arg = NoMeter]
  /\ UNCHANGED <<ctlVars, instVars, callers, tasks, pass, timed, sanitized, tagged>>
  /\ UNCHANGED <<instr, made, partVars>>

\* meter.GetGlobalMeter
GetGlobalMeter ==
  /\ globalMeter' = [globalMeter EXCEPT !.call = "GetMeter",
                                        !.arg = NoMeter,
                                        !.got = GetMeter(globalMeter)]
  /\ UNCHANGED <<ctlVars, instVars, callers, tasks, pass, timed, sanitized, tagged>>
  /\ UNCHANGED <<instr, made, partVars>>

\* callers that build meters and set and read the global one, in any order
NextSdk ==
  \/ \E options \in OptionLists(MaxOptions) : \E ok \in BOOLEAN : NewMeterCall(options, ok)
  \/ SetGlobalMeter
  \/ SetNopMeter
  \/ GetGlobalMeter

SpecSdk == InitInst /\ [][NextSdk]_vars

\* ---------------------------------------------------------------------------
\* The export servers goroutine by goroutine (internal/meter/prom/server)
\* ---------------------------------------------------------------------------

\* NewPromHttpServer: running 0, an unbuffered closeCh, no http.Server yet
NewPromHttpServer == [NoServer EXCEPT !.kind = "http"]

\* NewPromPushGatewayServer: running 0, an unbuffered closeCh
NewPromPushGatewayServer == [NoServer EXCEPT !.kind = "push"]

\* what a Start that won the swap spawns: startHTTPServer and the goroutine
\* that waits on closeCh, or the push goroutine (inside its first Push)
Spawned(kind) ==
  IF kind = "http" THEN [serve |-> "alive", closer |-> "parked"]
  ELSE [serve |-> "busy", closer |-> "none"]

\* promHttpServer.Start and promPushGatewayServer.Start: the swap 0 -> 1, then
\* s.server is set to a new http.Server and the goroutines are spawned
ExportStart(s) ==
  LET r == CompareAndSwapInt32(s.running, 0, 1) IN
  IF ~r.ok THEN [s EXCEPT !.last = "already_running"]
  ELSE [s EXCEPT !.running = r.val, !.last = "started",
                 !.gor = Append(@, Spawned(s.kind))]

\* Stop up to its send: the swap 1 -> 0, then the caller is at closeCh <- {}
ExportStop(s) ==
  LET r == CompareAndSwapInt32(s.running, 1, 0) IN
  IF ~r.ok THEN [s EXCEPT !.last = "already_stopped"]
  ELSE [s EXCEPT !.running = r.val, !.last = "stopping", !.pc = "stop_send",
                 !.stops = @ + 1]

\* the goroutines of s that are at a receive on closeCh
AtCloseCh(s) ==
  {g \in 1..Len(s.gor) :
     IF s.kind = "http" THEN s.gor[g].closer = "parked"
     ELSE s.gor[g].serve = "select"}

\* the serving goroutines (startHTTPServer) or push goroutines still alive
ServingTasks(s) == {g \in 1..Len(s.gor) : s.gor[g].serve # "done"}

\* the http.Server that s.server can name when the closer of Start g reads it:
\* the one Start g stored, or one stored by a later Start (the read is not
\* ordered with those writes)
ServerRead(s, g) == g..Len(s.gor)

\* a call of Start by the one caller
ExportStartCall ==
  /\ server.kind # "none"
  /\ server.pc = "idle"
  /\ server.running = 0 => Len(server.gor) < MaxStarts
  /\ server' = ExportStart(server)
  /\ UNCHANGED <<ctlVars, instVars, callers, tasks, pass, timed, sanitized, tagged>>
  /\ UNCHANGED <<instr, made, globalMeter, racers, held>>

\* a call of Stop by the one caller, up to its send
ExportStopCall ==
  /\ server.kind # "none"
  /\ server.pc = "idle"
  /\ server' = ExportStop(server)
  /\ UNCHANGED <<ctlVars, instVars, callers, tasks, pass, timed, sanitized, tagged>>
  /\ UNCHANGED <<instr, made, globalMeter, racers, held>>

\* the send of Stop meets the receive of goroutine g: Stop returns; the closer
\* goes on to Shutdown, the push goroutine returns
ExportStopSend(g) ==
  /\ server.pc = "stop_send"
  /\ g \in AtCloseCh(server)
  /\ server' = [server EXCEPT
       !.pc = "idle",
       !.delivered = @ + 1,
       !.gor[g] = IF server.kind = "http" THEN [@ EXCEPT !.closer = "shutting"]
                  ELSE [@ EXCEPT !.serve = "done"]]
  /\ UNCHANGED <<ctlVars, instVars, callers, tasks, pass, timed, sanitized, tagged>>
  /\ UNCHANGED <<instr, made, globalMeter, racers, held>>

\* the closer of Start g calls s.server.Shutdown: ListenAndServe of the
\* http.Server it read returns ErrServerClosed
HttpShutdown(g, target) ==
  /\ server.kind = "http"
  /\ g \in 1..Len(server.gor)
  /\ server.gor[g].closer = "shutting"
  /\ target \in ServerRead(server, g)
  /\ server' = [server EXCEPT
       !.gor = [i \in 1..Len(server.gor) |->
                  [serve  |-> IF i = target THEN "done" ELSE server.gor[i].serve,
                   closer |-> IF i = g THEN "done" ELSE server.gor[i].closer]]]
  /\ UNCHANGED <<ctlVars, instVars, callers, tasks, pass, timed, sanitized, tagged>>
  /\ UNCHANGED <<instr, made, globalMeter, racers, held>>

\* ListenAndServe of Start g returns with an error other than ErrServerClosed
HttpServeError(g) ==
  /\ server.kind = "http"
  /\ g \in 1..Len(server.gor)
  /\ server.gor[g].serve = "alive"
  /\ server' = [server EXCEPT !.gor[g].serve = "done"]
  /\ UNCHANGED <<ctlVars, instVars, callers, tasks, pass, timed, sanitized, tagged>>
  /\ UNCHANGED <<instr, made, globalMeter, racers, held>>

\* a Push of the push goroutine ends: it is at its select
ExportPushDone(g) ==
  /\ server.kind = "push"
  /\ g \in 1..Len(server.gor)
  /\ server.gor[g].serve = "busy"
  /\ server' = [server EXCEPT !.gor[g].serve = "select"]
  /\ UNCHANGED <<ctlVars, instVars, callers, tasks, pass, timed, sanitized, tagged>>
  /\ UNCHANGED <<instr, made, globalMeter, racers, held>>

\* pushTicker.C fires at the select: the push goroutine is inside a Push
ExportPushTick(g) ==
  /\ server.kind = "push"
  /\ g \in 1..Len(server.gor)
  /\ server.gor[g].serve = "select"
  /\ server' = [server EXCEPT !.gor[g].serve = "busy"]
  /\ UNCHANGED <<ctlVars, instVars, callers, tasks, pass, timed, sanitized, tagged>>
  /\ UNCHANGED <<instr, made, globalMeter, racers, held>>

\* one newly constructed export server of either kind
InitServer ==
  /\ NewPrometheusMeter
  /\ cfg = DefaultConfig
  /\ SamplerIdle
  /\ PassIdle
  /\ TimedIdle
  /\ SanitizeIdle
  /\ TagsIdle
  /\ WrapperIdle
  /\ SdkIdle
  /\ server \in {NewPromHttpServer, NewPromPushGatewayServer}
  /\ racers = NoRacers
  /\ held = NoHeld

\* one caller of Start and Stop, one call after the other, and the goroutines
NextServer ==
  \/ ExportStartCall
  \/ ExportStopCall
  \/ \E g \in 1..MaxStarts + 1 : ExportStopSend(g)
  \/ \E g, target \in 1..MaxStarts + 1 : HttpShutdown(g, target)
  \/ \E g \in 1..MaxStarts + 1 : HttpServeError(g)
  \/ \E g \in 1..MaxStarts + 1 : ExportPushDone(g)
  \/ \E g \in 1..MaxStarts + 1 : ExportPushTick(g)

SpecServer == InitServer /\ [][NextServer]_vars


\* ---------------------------------------------------------------------------
\* Base.AddTag called by several goroutines on one instrument
\* ---------------------------------------------------------------------------

\* a goroutine that has not called AddTag yet
NewRacer == [pc |-> "idle", kv |-> KeyValue("none", "none"), local |-> <<>>]

\* Base.AddTag of goroutine p, first half: the arguments of append are
\* evaluated, b.tags is read (no lock, no atomic)
RaceAddTagLoad(p, k, v) ==
  /\ p \in 1..Len(racers)
  /\ racers[p].pc = "idle"
  /\ instr.impl = "prom"
  /\ racers' = [racers EXCEPT ![p] = [pc |-> "loaded", kv |-> KeyValue(k, v),
                                      local |-> instr.tags]]
  /\ UNCHANGED <<ctlVars, instVars, callers, tasks, pass, timed, sanitized, tagged>>
  /\ UNCHANGED <<instr, made, globalMeter, server, held>>

\* Base.AddTag of goroutine p, second half: the slice append built from what
\* was read is stored in b.tags, and AddTag returns
RaceAddTagStore(p) ==
  /\ p \in 1..Len(racers)
  /\ racers[p].pc = "loaded"
  /\ instr' = [instr EXCEPT
       !.tags = BaseAddTag([tags |-> racers[p].local], racers[p].kv.key,
                           racers[p].kv.value),
       !.call = TagCall("AddTag", {racers[p].kv}, FALSE)]
  /\ racers' = [racers EXCEPT ![p].pc = "done"]
  /\ UNCHANGED <<ctlVars, instVars, callers, tasks, pass, timed, sanitized, tagged>>
  /\ UNCHANGED <<made, globalMeter, server, held>>

\* a live wrapper of any kind shared by NumTaggers goroutines
InitRace ==
  /\ NewPrometheusMeter
  /\ cfg = DefaultConfig
  /\ SamplerIdle
  /\ PassIdle
  /\ TimedIdle
  /\ SanitizeIdle
  /\ TagsIdle
  /\ instr \in {NewInstrument("prom", k) : k \in Kinds}
  /\ SdkIdle
  /\ server = NoServer
  /\ racers = [p \in 1..NumTaggers |-> NewRacer]
  /\ held = NoHeld

\* each goroutine calls AddTag once, at any time; another caller records
NextRace ==
  \/ \E p \in 1..NumTaggers : \E kv \in KeyValues : RaceAddTagLoad(p, kv.key, kv.value)
  \/ \E p \in 1..NumTaggers : RaceAddTagStore(p)
  \/ \E op \in RecordOps(instr.kind) : \E x \in ArgValues : CallRecord(op, x)

SpecRace == InitRace /\ [][NextRace]_vars

\* ---------------------------------------------------------------------------
\* The no-op meter (internal/meter/nop)
\* ---------------------------------------------------------------------------

\* nop.NewNopMeter: &Meter{}, a struct of no field
NewNopMeter == NopMeter

\* the factories of a meter
Factories == {"NewCounter", "NewUpDownCounter", "NewGauge", "NewHistogram"}

\* a WithRunning that turns the no-op meter into a live one when switched on
NopMeterWithRunning_Switches(m, on) == IF on THEN PromMeter(m.env) ELSE m

\* Meter.WithRunning(_ bool): an empty body, the meter after the call
NopMeterWithRunning(m, on) == m

\* Meter.GetHandler: return nil
NopMeterGetHandler(m) == "nil"

\* Meter.NewCounter / NewUpDownCounter / NewGauge / NewHistogram: return
\* nop.Counter / nop.UpDownCounter / nop.Gauge / nop.Histogram
NopMeterNew(m, f) ==
  [NewInstrument("nop", FactoryKind(f)) EXCEPT !.call = [NoMethod EXCEPT !.op = "New"]]

\* a call of WithRunning(on) on the no-op meter held
NopMeterCallWithRunning(on) ==
  /\ held.meter # NoMeter
  /\ held' = [held EXCEPT !.meter = NopMeterWithRunning(@, on),
                          !.op = "WithRunning",
                          !.on = Dir(on)]
  /\ UNCHANGED <<ctlVars, instVars, callers, tasks, pass, timed, sanitized, tagged>>
  /\ UNCHANGED <<instr, made, globalMeter, server, racers>>

\* a call of GetHandler on the no-op meter held
NopMeterCallGetHandler ==
  /\ held.meter # NoMeter
  /\ held' = [held EXCEPT !.op = "GetHandler",
                          !.handler = NopMeterGetHandler(held.meter)]
  /\ UNCHANGED <<ctlVars, instVars, callers, tasks, pass, timed, sanitized, tagged>>
  /\ UNCHANGED <<instr, made, globalMeter, server, racers>>

\* a call of the factory f on the no-op meter held: the caller goes on with
\* what it returned
NopMeterCallNew(f) ==
  /\ held.meter # NoMeter
  /\ held' = [held EXCEPT !.op = f]
  /\ instr' = NopMeterNew(held.meter, f)
  /\ UNCHANGED <<ctlVars, instVars, callers, tasks, pass, timed, sanitized, tagged>>
  /\ UNCHANGED <<made, globalMeter, server, racers>>

\* a program that holds the meter of nop.NewNopMeter
InitNop ==
  /\ NewPrometheusMeter
  /\ cfg = DefaultConfig
  /\ SamplerIdle
  /\ PassIdle
  /\ TimedIdle
  /\ SanitizeIdle
  /\ TagsIdle
  /\ WrapperIdle
  /\ SdkIdle
  /\ server = NoServer
  /\ racers = NoRacers
  /\ held = [NoHeld EXCEPT !.meter = NewNopMeter]

\* a caller that toggles the no-op meter, asks for its handler, creates
\* instruments and uses the last one created, in any order
NextNop ==
  \/ \E on \in BOOLEAN : NopMeterCallWithRunning(on)
  \/ NopMeterCallGetHandler
  \/ \E f \in Factories : NopMeterCallNew(f)
  \/ \E kv \in KeyValues : CallAddTag(kv.key, kv.value)
  \/ \E m \in TagMaps : \E absent \in BOOLEAN : CallWithTags(m, absent)
  \/ \E op \in RecordOps(instr.kind) : \E x \in ArgValues : CallRecord(op, x)

SpecNop == InitNop /\ [][NextNop]_vars

\* the controller under the scheduling Go gives its goroutines: the listener
\* keeps running while it has a step to take, a blocked send on closeCh is
\* taken by a receiver that keeps coming back to its select, and a collection
\* pass or a Push that has begun ends
FairCtl ==
  /\ SpecCtl
  /\ SF_vars(signalListener)
  /\ WF_vars(CollectPassDone)
  /\ WF_vars(\E i \in 1..Len(srv) : PushDone(i))

\* ------------------------------------------------------------------ claims
Min1(n) == IF n >= 1 THEN 1 ELSE 0

RECURSIVE SumFwd(_)
SumFwd(n) == IF n = 0 THEN 0 ELSE inst[n].fwd + SumFwd(n - 1)

\* C1: on every live instrument instance exactly one recording call passes the
\* latch, whatever the number and interleaving of the calls: the calls past the
\* latch (forwarded or about to be) number min(1, calls), an instance with no
\* call in flight has forwarded min(1, calls) times, and the backend has seen
\* exactly the forwarded calls
C1_ExactlyOnceForwarding ==
  /\ \A i \in 1..MaxInst :
       inst[i].state = "live" =>
         /\ inst[i].inflight + inst[i].fwd = Min1(inst[i].calls)
         /\ inst[i].inflight = 0 => inst[i].fwd = Min1(inst[i].calls)
  /\ backend = SumFwd(MaxInst)

\* two recording calls were made on one live instance and one reached the backend
C1_Witness ==
  \E i \in 1..MaxInst :
    /\ inst[i].state = "live"
    /\ inst[i].calls >= 2
    /\ inst[i].inflight = 0
    /\ inst[i].fwd = 1

\* the listener is not in the middle of a signal: parked on its select, or returned
Quiescent == lpc \in {"wait", "exited"}

\* C2: a setRunning(false) made on a Running controller with no request pending
\* or in process is followed by the state Stopped, and a setRunning(true) made on
\* a Stopped one by the state Running. The request either went to the listener
\* (lpc is "off" / "on") or was dropped with the listener returned (quiet)
C2_ToggleTakesEffect ==
  /\ []((running = 1 /\ (lpc = "off" \/ (dropped.dir = "off" /\ dropped.quiet)))
          => <>(running = 0))
  /\ []((running = 0 /\ (lpc = "on" \/ (dropped.dir = "on" /\ dropped.quiet)))
          => <>(running = 1))

\* C3: the listener's step on a turn-on signal while Running, or on a turn-off
\* signal while Stopped, leaves the running flag, the collector and every
\* server as they are
C3_DuplicateSignalNoOp ==
  [][(((lpc = "on" /\ running = 1) \/ (lpc = "off" /\ running = 0)) /\ lpc' # lpc)
       => (running' = running /\ col' = col /\ srv' = srv)]_vars

\* the listener has handled a turn-off signal on a Stopped controller
C3_Witness ==
  /\ lpc = "exited"
  /\ running = 0
  /\ Len(srv) = 2
  /\ cfg.collect

\* C4: the signal listener never exits: it is waiting on its channels or
\* processing a signal
C4_ListenerNeverExits == lpc # "exited"

\* C5: once setRunning(true) has been called twice with the first request not
\* processed in between, the controller ends Running: when the second request
\* was dropped after a dropped first one and the listener has nothing left to
\* process, the state is Running
C5_TwoTurnOnsEndRunning ==
  (dropped.dir = "on" /\ dropped.again /\ Quiescent) => running = 1

\* C6: a request is dropped only when a request of its direction is pending:
\* a WithRunning that takes the default branch finds the listener holding an
\* unprocessed signal of the same direction
C6_DroppedOnlyWhenPending ==
  [][(dropped' # dropped /\ dropped'.dir # "none") => lpc = dropped'.dir]_vars

\* C7: a factory call that reads the flag while the controller is Stopped
\* returns the no-op instrument of its kind and begins no backend instrument,
\* and a recording call on a no-op instrument reaches no backend
C7_StoppedFactoryReturnsNop ==
  [][/\ (running = 0 /\ lastRet = NoRet /\ lastRet' # NoRet /\ inst' = inst)
          => (lastRet'.res = "nop" /\ lastRet'.why = "stopped")
     /\ running = 0
          => \A i \in 1..MaxInst : inst[i].state = "free" => inst'[i].state = "free"
     /\ nopCalls' # nopCalls => (backend' = backend /\ inst' = inst)]_vars

\* a Stopped controller has handed out a no-op instrument, it was recorded on,
\* and the backend saw nothing
C7_Witness ==
  /\ running = 0
  /\ lastRet = StoppedResult("Histogram")
  /\ nopCalls >= 1
  /\ backend = 0

\* C8: no recording call made while the controller is Stopped goes past the
\* latch towards the backend
C8_StoppedForwardsNothing ==
  [][running = 0 => \A i \in 1..MaxInst : inst'[i].inflight <= inst[i].inflight]_vars

AllStopped ==
  /\ col = [running |-> 0, sel |-> 0, pass |-> 0]
  /\ \A i \in 1..Len(srv) : srv[i].running = 0 /\ srv[i].sel = 0 /\ srv[i].busy = 0

\* every server runs with one goroutine, and so does the collector if enabled
AllStarted ==
  /\ \A i \in 1..Len(srv) : srv[i].running = 1 /\ srv[i].sel + srv[i].busy = 1
  /\ cfg.collect => (col.running = 1 /\ col.sel + col.pass = 1)

C11_SetRunningNeverBlocks ==
  \A on \in BOOLEAN : ENABLED WithRunning(on)

\* a WithRunning(true) has returned while the listener is blocked in the Stop of
\* a server whose goroutine is inside a Push
C11_Witness ==
  /\ lpc = "off_server_send"
  /\ srv[lidx].sel = 0
  /\ dropped.dir = "on"

\* the Collect goroutines that have not returned
AliveTasks == TasksAt(tasks, "select") + TasksAt(tasks, "pass")

\* C12: under every sequence and interleaving of Start and Stop calls at most
\* one Collect goroutine of the collector is alive at any time
C12_AtMostOneTickTask == AliveTasks <= 1

\* C13: Stop on a collector that is not running (never started, disabled by
\* the configuration, or stopped already) does nothing: a goroutine that is not
\* inside Stop does not get to the send on closeCh while the flag is 0, and the
\* call that logs "not running" has found the flag 0, has returned, and has left
\* the flag, the goroutine counts and every Collect goroutine as they were
C13_StopWhenNotRunningNoOp ==
  [][\A p \in 1..NumCallers :
       /\ (col.running = 0 /\ callers[p].pc = "idle") => callers'[p].pc = "idle"
       /\ (callers'[p].log # callers[p].log /\ callers'[p].log = "not_running")
            => /\ col.running = 0
               /\ callers'[p].pc = "idle"
               /\ col' = col
               /\ tasks' = tasks]_vars

\* Stop has been called on a collector that was started and stopped before
C13_Witness ==
  /\ cfg.collect
  /\ col.running = 0
  /\ Len(tasks) = 1
  /\ tasks[1].pc = "done"
  /\ \E p \in 1..NumCallers : callers[p] = [pc |-> "idle", log |-> "not_running"]

\* C14: a Collect goroutine never stops in the middle of a pass: it leaves a
\* pass only for the select and only after the last sample, it goes through
\* the samples one by one, it returns only from the select and only by taking
\* the close signal of a Stop that then returns, and once returned it begins
\* no pass
C14_NeverStopsMidPass ==
  [][\A t \in 1..Len(tasks) :
       /\ tasks[t].pc = "pass"
            => \/ /\ tasks'[t].pc = "pass"
                  /\ tasks'[t].idx \in {tasks[t].idx, tasks[t].idx + 1}
               \/ /\ tasks[t].idx = CatalogueLen
                  /\ tasks'[t] = NewTask
       /\ (tasks[t].pc # "done" /\ tasks'[t].pc = "done")
            => /\ tasks[t].pc = "select"
               /\ \E p \in 1..NumCallers :
                    /\ callers[p].pc = "stop_send"
                    /\ callers'[p] = [pc |-> "idle", log |-> "stopped"]
       /\ tasks[t].pc = "done" => tasks'[t] = tasks[t]]_vars

\* a Stop is blocked in its send while the only Collect goroutine is in the
\* middle of a pass
C14_Witness ==
  /\ Len(tasks) = 1
  /\ tasks[1] = [pc |-> "pass", idx |-> 1]
  /\ \E p \in 1..NumCallers : callers[p].pc = "stop_send"

\* the calls the pass has made for sample i
CallsFor(i) == SelectSeq(pass.calls, LAMBDA c : c.sample = i)

\* the one call of the classification law: the instrument, the method and the
\* kind of value read
LawCall(i, d, instrument, method, read) ==
  /\ Len(CallsFor(i)) = 1
  /\ CallsFor(i)[1].factory = instrument
  /\ CallsFor(i)[1].op = method
  /\ CallsFor(i)[1].read = read
  /\ CallsFor(i)[1].value = d.value

\* C15: for every sample the pass has gone through, cumulative and UInt64 gave
\* exactly one Counter Incr with the reading, cumulative and Float64 exactly one
\* UpDownCounter Update with the reading, non-cumulative and UInt64 exactly one
\* Gauge Update with the reading, and every other combination no call at all;
\* the pass has made no other call
C15_SamplerClassification ==
  /\ \A i \in 1..pass.idx :
       LET d == pass.samples[i] IN
       IF d.cumulative /\ d.kind = "KindUint64"
         THEN LawCall(i, d, "NewCounter", "Incr", "Uint64")
       ELSE IF d.cumulative /\ d.kind = "KindFloat64"
         THEN LawCall(i, d, "NewUpDownCounter", "Update", "Float64")
       ELSE IF ~d.cumulative /\ d.kind = "KindUint64"
         THEN LawCall(i, d, "NewGauge", "Update", "Uint64")
       ELSE CallsFor(i) = <<>>
  /\ \A n \in 1..Len(pass.calls) : pass.calls[n].sample \in 1..pass.idx

\* a pass over a non-cumulative Float64 sample and a cumulative UInt64 sample
\* has ended with the one Counter call
C15_Witness ==
  /\ pass.idx = 2
  /\ pass.samples[1] = [cumulative |-> FALSE, kind |-> "KindFloat64", value |-> 1]
  /\ pass.samples[2] = [cumulative |-> TRUE, kind |-> "KindUint64", value |-> 2]
  /\ Len(pass.calls) = 1
  /\ pass.calls[1].factory = "NewCounter"
  /\ pass.calls[1].value = 2

\* C16: on every histogram NewHistogram returns, the live wrapper or the no-op
\* histogram, Time(f) runs f exactly once before it returns: when no call of
\* Time is under way, f has run as many times as Time has returned
C16_TimeRunsFnOnce ==
  timed.pc = "idle" => timed.runs = timed.calls

\* C17: sanitization is idempotent: whenever SanitizeMetricName has been applied
\* to a name and then to its own result, the second result is the first
C17_SanitizeIdempotent ==
  sanitized.second # NoRes => sanitized.second = sanitized.first

\* a name that sanitization trims, lower-cases and prefixes has been sanitized twice
C17_Witness ==
  /\ sanitized.name = <<"/", "1", "A">>
  /\ sanitized.first = [ok |-> TRUE, s |-> <<"o", "_", "1", "a">>]
  /\ sanitized.second = sanitized.first

\* the rule of the sanitization: lower-case the name, replace every rune that is
\* not a letter, a digit or an underscore by an underscore, trim the underscores
\* at both ends, and prepend "o_" if the first rune left is not a letter
RuleResult(name) ==
  LET t == Trim(ReplaceRunes(ToLower(name))) IN
  IF t # <<>> /\ IsLetter(t[1]) THEN t ELSE <<"o", "_">> \o t

\* a rune a sanitized name is made of: a letter that is not upper case, a digit
\* or an underscore
SanitizedRune(r) ==
  \/ IsLetter(r) /\ ToLowerRune(r) = r
  \/ IsDigit(r)
  \/ r = "_"

\* C18: whatever SanitizeMetricName returns is the result of the rule, begins
\* with a letter and is made of lower-case letters, digits and underscores, and
\* the three examples of the rule come out as written
C18_SanitizeFollowsRule ==
  /\ sanitized.first.ok =>
       /\ sanitized.first.s = RuleResult(sanitized.name)
       /\ IsLetter(sanitized.first.s[1])
       /\ \A i \in 1..Len(sanitized.first.s) : SanitizedRune(sanitized.first.s[i])
  /\ SanitizeMetricName(<<"/", "c", "p", "u", "/", "c", "l", "a", "s", "s", "e", "s", "/", "g", "c", "/", "m", "a", "r", "k", "/", "a", "s", "s", "i", "s", "t", ":", "c", "p", "u", "-", "s", "e", "c", "o", "n", "d", "s">>).s = <<"c", "p", "u", "_", "c", "l", "a", "s", "s", "e", "s", "_", "g", "c", "_", "m", "a", "r", "k", "_", "a", "s", "s", "i", "s", "t", "_", "c", "p", "u", "_", "s", "e", "c", "o", "n", "d", "s">>
  /\ SanitizeMetricName(<<"1", "s", "t", "a", "r", "t">>).s = <<"o", "_", "1", "s", "t", "a", "r", "t">>
  /\ SanitizeMetricName(<<"n", "o", "C", "h", "a", "n", "g", "e">>).s = <<"n", "o", "c", "h", "a", "n", "g", "e">>

\* C19: SanitizeMetricName returns a name for every input, the empty string and
\* the strings that are nothing but underscores after the replacement included
C19_SanitizeAlwaysReturns ==
  sanitized.first # NoRes => (sanitized.first.ok /\ sanitized.first.s # <<>>)

\* how many times the tag x is in the tags t
TimesIn(t, x) == Cardinality({i \in 1..Len(t) : t[i] = x})

\* the two Bases hold the same tags, each as many times, in whatever order
SameTags ==
  /\ Len(tagged.tags[1]) = Len(tagged.tags[2])
  /\ \A i \in 1..Len(tagged.tags[1]) :
       TimesIn(tagged.tags[1], tagged.tags[1][i]) = TimesIn(tagged.tags[2], tagged.tags[1][i])

\* C20: two tag sets that hold the same tags, a key more than once included,
\* in different insertion orders serialize to the same string
C20_SerializeOrderIndependent ==
  (/\ SameTags
   /\ tagged.str[1] # NoStr
   /\ tagged.str[2] # NoStr) => tagged.str[1] = tagged.str[2]

\* C21: on a live instrument a call of AddTag or WithTags, made before or after
\* a recording call, leaves the latch and the calls made on the backend as they
\* were, returns the instrument it was called on, and adds every entry it was
\* given to the tags
C21_TaggingNotGatedByLatch ==
  [][(instr'.impl = "prom" /\ instr'.call.op \in {"AddTag", "WithTags"}) =>
       /\ instr'.completed = instr.completed
       /\ instr'.sent = instr.sent
       /\ instr'.call.ret = "receiver"
       /\ Len(instr'.tags) = Len(instr.tags) + Cardinality(instr'.call.entries)]_vars

\* a live instrument that has forwarded its recording and was tagged after it
C21_Witness ==
  /\ instr.impl = "prom"
  /\ instr.completed = 1
  /\ Len(instr.sent) = 1
  /\ instr.call.op = "AddTag"
  /\ Len(instr.tags) > Len(instr.sent[1].tags)

\* C25: a no-op instrument stays as it was created whatever is called on it: no
\* call on a backend, no tag stored, no latch taken, and AddTag and WithTags
\* return the singleton they were called on
C25_NopInstrumentsStateless ==
  instr.impl = "nop" =>
    /\ [instr EXCEPT !.call = NoMethod] = NewInstrument("nop", instr.kind)
    /\ instr.call.op \in {"AddTag", "WithTags"} => instr.call.ret = "receiver"

\* AddTag has been called on a no-op instrument
C25_Witness ==
  /\ instr.impl = "nop"
  /\ instr.call.op = "AddTag"

\* C28: AddTag puts its tag at the end of the tags of a live instrument and
\* leaves the others in place, whether the tag is there already or not;
\* WithTags with an empty or nil map leaves the tags as they were, and with a map
\* of n entries it adds exactly these n entries behind the others
C28_TagsAppendUnconditionally ==
  [][instr'.impl = "prom" =>
       /\ instr'.call.op = "AddTag" =>
             \E kv \in instr'.call.entries : instr'.tags = Append(instr.tags, kv)
       /\ instr'.call.op = "WithTags" =>
             /\ Len(instr'.tags) = Len(instr.tags) + Cardinality(instr'.call.entries)
             /\ SubSeq(instr'.tags, 1, Len(instr.tags)) = instr.tags
             /\ {instr'.tags[i] : i \in (Len(instr.tags) + 1)..Len(instr'.tags)}
                  = instr'.call.entries]_vars

\* the same tag added twice to a live instrument
C28_Witness ==
  /\ instr.impl = "prom"
  /\ instr.call.op = "AddTag"
  /\ Len(instr.tags) >= 2
  /\ instr.tags[Len(instr.tags)] = instr.tags[Len(instr.tags) - 1]

\* the value the backend must be given for a recording method called with x
LawValue(op, x) ==
  CASE op = "IncrOne"              -> Float(1)
    [] op = "DecrOne"              -> Float(0 - 1)
    [] op = "UpdateInMilliseconds" -> [num |-> x.num, den |-> 1000 * x.den]
    [] OTHER                       -> x

\* C29: the call a live instrument makes on the backend carries the value of the
\* caller (Incr, Update, UpdateInSeconds: the value given, negative or not;
\* IncrOne: 1; DecrOne: -1; UpdateInMilliseconds: the value over 1000) and the
\* tags the instrument has when the recording method is called
C29_ForwardsCallersValue ==
  [][instr'.sent # instr.sent =>
       /\ Len(instr'.sent) = Len(instr.sent) + 1
       /\ instr'.sent[Len(instr'.sent)].tags = instr.tags
       /\ ~(instr.kind = "Histogram" /\ instr'.call.op = "Update") =>
            instr'.sent[Len(instr'.sent)].value = LawValue(instr'.call.op, instr'.call.val)]_vars

\* a tagged counter has forwarded a negative delta
C29_Witness ==
  /\ instr.kind = "Counter"
  /\ instr.call.op = "Incr"
  /\ Len(instr.sent) = 1
  /\ instr.sent[1].value = Float(0 - 1)
  /\ Len(instr.sent[1].tags) > 0

\* C22: in every state the meter reaches through WithRunning calls, the steps
\* of the listener and the creation of instruments, GetHandler returns the
\* handler NewPrometheusMeter built
C22_HandlerBoundAtConstruction == GetHandler = HandlerFor

\* the meter has been stopped by the listener and has created a live instrument
C22_Witness ==
  /\ running = 0
  /\ \E i \in 1..MaxInst : inst[i].state = "live"
  /\ GetHandler = HandlerFor

\* the state shows no request to toggle: the flag is as constructed, the
\* listener holds no signal and no request was dropped
Untoggled ==
  /\ running = 1
  /\ lpc \in {"loop", "wait"}
  /\ dropped = NoDrop

\* C23: the meter starts running, with no signal handed to the listener and no
\* request pending; while no request to toggle has been made a factory call
\* does not return the instrument of a stopped meter, and returns a live
\* wrapper when the backend has created the instrument
C23_ConstructedRunning ==
  /\ (running = 1 /\ lpc = "loop" /\ dropped = NoDrop)
  /\ [][(Untoggled /\ lastRet' # lastRet /\ lastRet' # NoRet) =>
          /\ lastRet'.why # "stopped"
          /\ lastRet'.why = "created" =>
               /\ lastRet'.res = "live"
               /\ \E i \in 1..MaxInst :
                    inst[i].state = "creating" /\ inst'[i] = NewWrapper(lastRet'.kind)]_vars

\* a live instrument handed out by a meter that was never toggled
C23_Witness ==
  /\ Untoggled
  /\ lpc = "loop"
  /\ lastRet = CreatedResult("Counter")
  /\ \E i \in 1..MaxInst : inst[i] = NewWrapper("Counter")

\* C27: the running flag changes only in the compare-and-swap of the listener,
\* on a signal it has received: no step of WithRunning and no step of a factory
\* changes it
C27_RunningWrittenOnlyByListener ==
  [][running' # running =>
       /\ lpc \in {"on", "off"}
       /\ lpc' \in {"on_collector", "off_collector"}
       /\ dropped' = dropped
       /\ inst' = inst
       /\ lastRet' = lastRet]_vars

\* WithRunning(false) has returned and the flag is still set
C27_Witness ==
  /\ lpc = "off"
  /\ running = 1

\* C26: every call a collection pass makes on the backend carries the tag
\* metric_type = "base": the instrument was tagged before the recording method
\* was called on it, and a live instrument that was recorded on has forwarded
C26_TaggedBeforeRecording ==
  /\ \A n \in 1..Len(instr.sent) :
       \E j \in 1..Len(instr.sent[n].tags) :
         instr.sent[n].tags[j] = KeyValue("metric_type", "base")
  /\ (instr.impl = "prom" /\ instr.call.op \in {"Incr", "Update"}) => Len(instr.sent) = 1

\* the second sample of a pass has been forwarded through a live instrument
C26_Witness ==
  /\ pass.idx = 2
  /\ Len(pass.calls) = 2
  /\ instr.impl = "prom"
  /\ Len(instr.sent) = 1
  /\ instr.sent[1].tags = <<KeyValue("metric_type", "base")>>

\* the environment and the provider the options leave in the configuration:
\* those of the last option of each sort, or the zero values
LastOf(options, kind) ==
  LET at == {i \in 1..Len(options) : options[i].kind = kind} IN
  IF at = {} THEN WithEnv("")
  ELSE options[CHOOSE i \in at : \A j \in at : j <= i]

C30_GlobalMeterLastWriterWins ==
  /\ globalMeter.store = NopMeter
  /\ [](globalMeter.store.impl \in {"nop", "prom"})
  /\ [][globalMeter' # globalMeter =>
          /\ globalMeter'.call = "SetMeter" =>
                globalMeter'.store = IF globalMeter'.arg = NilMeter THEN globalMeter.store
                                                                   ELSE globalMeter'.arg
          /\ globalMeter'.call = "SetNopMeter" => globalMeter'.store = NopMeter
          /\ globalMeter'.call = "GetMeter" =>
                /\ globalMeter'.store = globalMeter.store
                /\ globalMeter'.got = globalMeter.store]_vars

\* SetGlobalMeter(nil) was called after a Prometheus meter had been set
C30_Witness ==
  /\ globalMeter.call = "SetMeter"
  /\ globalMeter.arg = NilMeter
  /\ globalMeter.store.impl = "prom"

\* C31: with RuntimeMetricsCollect off the collector is never running and has
\* no Collect goroutine, at the select or in a pass, whatever requests to toggle
\* the meter has taken, and the listener never waits in the send of
\* collector.Stop
C31_DisabledSamplerStaysStopped ==
  ~cfg.collect =>
    /\ col = NewRuntimeCollector
    /\ lpc # "off_collector_send"

\* collection is off and the listener has gone through a turn-off, Stop of the
\* collector included
C31_Witness ==
  /\ ~cfg.collect
  /\ running = 0
  /\ lpc = "loop"
  /\ col = NewRuntimeCollector
\* C32: an export server has at most one serving or push task alive at any
\* time, and every Stop that won the swap has delivered exactly one close
\* signal once the caller is back from it
C32_ExportServerLifecycle ==
  /\ Cardinality(ServingTasks(server)) <= 1
  /\ server.delivered <= server.stops
  /\ server.pc = "idle" => server.delivered = server.stops

C34_StopEventuallyReturns ==
  \A p \in 1..NumCallers : (callers[p].pc = "stop_send") ~> (callers[p].pc = "idle")

\* a Stop waits in its send while the only Collect goroutine is inside a pass
C34_Witness ==
  /\ callers[1].pc = "stop_send"
  /\ Len(tasks) = 1
  /\ tasks[1].pc = "pass"

\* C35: the running flag of the collector and of each server changes only in a
\* step of the listener that is at the Start or Stop of that collaborator, and
\* the calls alternate: every Start the listener issues finds the collaborator
\* stopped and every Stop finds it started, the constructor's Start having come
\* before the listener's first call
C35_LifecycleCallsOrdered ==
  [][/\ col'.running # col.running =>
          \/ lpc = "on_collector" /\ col.running = 0
          \/ lpc = "off_collector" /\ col.running = 1
     /\ \A i \in 1..Len(srv) :
          srv'[i].running # srv[i].running =>
            /\ lidx = i
            /\ \/ lpc = "on_servers" /\ srv[i].running = 0
               \/ lpc = "off_servers" /\ srv[i].running = 1
     /\ (lpc = "on_collector" /\ cfg.collect) => col.running = 0
     /\ (lpc = "off_collector" /\ cfg.collect) => col.running = 1
     /\ lpc = "on_servers" => srv[lidx].running = 0
     /\ lpc = "off_servers" => srv[lidx].running = 1]_vars

\* the listener has stopped everything and is starting it again: the collector
\* is back on, the first server is next
C35_Witness ==
  /\ lpc = "on_servers"
  /\ lidx = 1
  /\ cfg.collect
  /\ col.running = 1
  /\ srv[1].running = 0

\* C36: once the goroutines that called AddTag on the same live instrument at
\* the same time have all returned, the tag of each of them is in Base.tags
C36_NoTagLost ==
  (racers # NoRacers /\ \A p \in 1..Len(racers) : racers[p].pc = "done") =>
    /\ Len(instr.tags) = Len(racers)
    /\ \A p \in 1..Len(racers) :
         \E i \in 1..Len(instr.tags) : instr.tags[i] = racers[p].kv

\* C37: the no-op meter is the same after every call, WithRunning(true) and
\* WithRunning(false) included; GetHandler has never returned a handler; and
\* the instrument in the caller's hands after a factory call, before or after
\* any toggle, is the no-op singleton of the kind of that factory, which has
\* kept no tag and reached no backend
C37_NopMeterSingleState ==
  /\ held.meter = NewNopMeter
  /\ held.handler \in {"none", "nil"}
  /\ held.op = "GetHandler" => held.handler = "nil"
  /\ instr # NoInstr =>
       /\ instr.impl = "nop"
       /\ instr.tags = <<>>
       /\ instr.sent = <<>>
  /\ held.op \in Factories => instr.kind = FactoryKind(held.op)

\* a gauge asked of the meter after WithRunning(true) and used
C37_Witness ==
  /\ held.on = "on"
  /\ held.op = "NewGauge"
  /\ held.handler = "nil"
  /\ instr.impl = "nop"
  /\ instr.kind = "Gauge"
  /\ instr.call.op = "Update"

====
